---- MODULE Spec2Model ----
(***************************************************************************)
(* A model of the URL discovery core of llms-sitemap-generator:            *)
(*   crawler.py   crawl_site (priority frontier, fetch-with-retry)         *)
(*   url_utils.py normalize_url and the host helpers                       *)
(*   sitemap.py   collect_urls_from_sources and sitemap expansion          *)
(*   filters.py   filter_and_group_urls                                    *)
(*   generator.py the per-group limits of _generate_llms_from_urls         *)
(* Each subsystem has its own variables and its own specification; the     *)
(* variables of the other subsystems stay at their idle value.             *)
(***************************************************************************)
EXTENDS Integers, Sequences, FiniteSets, TLC

VARIABLES
  \* ---- crawl_site (crawler.py) ----
  max_urls,               \* parameter max_urls
  max_depth,              \* parameter max_depth
  max_retries,            \* parameter max_retries
  allow_same_root_subdomains, \* parameter
  has_sink,               \* failed_urls is not None
  start_url,              \* the normalized start URL
  visited,                \* visited: Set[str]
  results,                \* results: List[str]
  queue,                  \* the heap, as the set of its tuples
  counter,                \* the insertion sequence counter
  dynamic_allowed_hosts,  \* dynamic_allowed_hosts: Set[str]
  failed_urls,            \* the failure sink (a list of records)
  pc,                     \* position in crawl_site
  current,                \* the URL popped last
  depth,                  \* its depth
  attempt,                \* the retry loop's attempt number
  resp,                   \* the response held after the retry loop
  last_err,               \* last_err
  attemptLog,             \* history: the kind of outcome of every GET of current
  fetchStarts,            \* history: per URL, the retry loops started for it
  popped,                 \* history: the heap tuple popped last
  \* ---- normalize_url (url_utils.py) ----
  nu_url,                 \* the argument url
  nu_flags,               \* prefer_https, drop_fragment, strip_trailing_slash
  nu_first,               \* normalize_url(url)
  nu_second,              \* normalize_url(normalize_url(url))
  nu_pc,                  \* how many times normalize_url was applied
  \* ---- collect_urls_from_sources (sitemap.py) ----
  col_max_urls,           \* config.filters.max_urls
  col_sources,            \* config.sources
  col_idx,                \* the source the loop is at (1-based)
  collected,              \* collected: List[str]
  unique,                 \* unique: List[str], the value returned
  col_trace,              \* history: what each source yielded, in order
  col_pc,                 \* position in collect_urls_from_sources
  \* ---- filter_and_group_urls (filters.py) ----
  fl_config,              \* config.filters: include, exclude and the flags
  fl_urls,                \* urls: List[str]
  fl_idx,                 \* the URL the for loop is at (1-based)
  fl_results,             \* results: List[PageEntry]
  fl_fate,                \* history: what became of each URL processed
  fl_pc,                  \* position in filter_and_group_urls
  \* ---- group limits of _generate_llms_from_urls (generator.py) ----
  lp_config,              \* group_limits, default_group_limit and max_pages
  lp_input,               \* history: pages before the limits
  lp_limited,             \* history: pages after the group limits
  lp_pages,               \* pages: List[PageEntry]
  lp_pc,                  \* position in _generate_llms_from_urls
  \* ---- _collect_from_sitemap_source (sitemap.py) ----
  sm_docs,                \* what each sitemap URL of the site answers
  sm_seen,                \* seen: Set[str], shared by the sources of a run
  sm_stack,               \* the calls in progress, innermost last
  sm_result,              \* what _collect_from_sitemap_source returned
  sm_fetched,             \* history: the URLs given to _fetch_xml, in order
  sm_pc,                  \* position in _collect_from_sitemap_source
  \* ---- pure functions applied to drawn arguments ----
  fn_args,                \* the arguments of the call
  fn_result,              \* what the call returned
  fn_pc,                  \* whether the call was made
  \* ---- the crawl sources of one run of collect_urls_from_sources (sitemap.py) ----
  run_global_max,         \* config.filters.max_urls
  run_sources,            \* the crawl sources of config.sources
  run_idx,                \* the source the loop is at (1-based)
  run_collected,          \* collected: List[str]
  wire,                   \* history: per URL, the HTTP GET requests sent for it
  run_pc                  \* position in collect_urls_from_sources

crawlVars == <<max_urls, max_depth, max_retries, allow_same_root_subdomains,
               has_sink, start_url, visited, results, queue, counter,
               dynamic_allowed_hosts, failed_urls, pc, current, depth,
               attempt, resp, last_err, attemptLog, fetchStarts,
               popped>>

normVars == <<nu_url, nu_flags, nu_first, nu_second, nu_pc>>

colVars == <<col_max_urls, col_sources, col_idx, collected, unique,
             col_trace, col_pc>>

filterVars == <<fl_config, fl_urls, fl_idx, fl_results, fl_fate, fl_pc>>

limitVars == <<lp_config, lp_input, lp_limited, lp_pages, lp_pc>>

sitemapVars == <<sm_docs, sm_seen, sm_stack, sm_result, sm_fetched, sm_pc>>

funcVars == <<fn_args, fn_result, fn_pc>>

runVars == <<run_global_max, run_sources, run_idx, run_collected, wire, run_pc>>

vars == <<crawlVars,
         normVars,
         colVars,
         filterVars,
         limitVars,
         sitemapVars,
         funcVars,
         runVars>>

\* The variables other than those of crawl_site, and their idle values
crawlRest == <<normVars,
  colVars,
  filterVars,
  limitVars,
  sitemapVars,
  funcVars,
  runVars>>

normRest == <<crawlVars,
  colVars,
  filterVars,
  limitVars,
  sitemapVars,
  funcVars,
  runVars>>
colRest == <<crawlVars,
  normVars,
  filterVars,
  limitVars,
  sitemapVars,
  funcVars,
  runVars>>
filterRest == <<crawlVars,
  normVars,
  colVars,
  limitVars,
  sitemapVars,
  funcVars,
  runVars>>
limitRest == <<crawlVars,
  normVars,
  colVars,
  filterVars,
  sitemapVars,
  funcVars,
  runVars>>
sitemapRest == <<crawlVars,
  normVars,
  colVars,
  filterVars,
  limitVars,
  funcVars,
  runVars>>
funcRest == <<crawlVars,
  normVars,
  colVars,
  filterVars,
  limitVars,
  sitemapVars,
  runVars>>
runRest == <<normVars,
  colVars,
  filterVars,
  limitVars,
  sitemapVars,
  funcVars>>

IdleCrawl ==
  /\ max_urls = 0
  /\ max_depth = 0
  /\ max_retries = 0
  /\ allow_same_root_subdomains = FALSE
  /\ has_sink = FALSE
  /\ start_url = ""
  /\ visited = {}
  /\ results = <<>>
  /\ queue = {}
  /\ counter = 0
  /\ dynamic_allowed_hosts = {}
  /\ failed_urls = <<>>
  /\ pc = "idle"
  /\ current = ""
  /\ depth = 0
  /\ attempt = 0
  /\ resp = <<>>
  /\ last_err = 0
  /\ attemptLog = <<>>
  /\ fetchStarts = <<>>
  /\ popped = <<>>

IdleCollect ==
  /\ col_max_urls = 0
  /\ col_sources = <<>>
  /\ col_idx = 0
  /\ collected = <<>>
  /\ unique = <<>>
  /\ col_trace = <<>>
  /\ col_pc = "idle"

IdleFilter ==
  /\ fl_config = <<>>
  /\ fl_urls = <<>>
  /\ fl_idx = 0
  /\ fl_results = <<>>
  /\ fl_fate = <<>>
  /\ fl_pc = "idle"

IdleLimit ==
  /\ lp_config = <<>>
  /\ lp_input = <<>>
  /\ lp_limited = <<>>
  /\ lp_pages = <<>>
  /\ lp_pc = "idle"

IdleSitemap ==
  /\ sm_docs = <<>>
  /\ sm_seen = {}
  /\ sm_stack = <<>>
  /\ sm_result = <<>>
  /\ sm_fetched = <<>>
  /\ sm_pc = "idle"

IdleFunc ==
  /\ fn_args = <<>>
  /\ fn_result = <<>>
  /\ fn_pc = "idle"

IdleRun ==
  /\ run_global_max = 0
  /\ run_sources = <<>>
  /\ run_idx = 0
  /\ run_collected = <<>>
  /\ wire = <<>>
  /\ run_pc = "idle"

IdleNorm ==
  /\ nu_url = <<>>
  /\ nu_flags = <<>>
  /\ nu_first = <<>>
  /\ nu_second = <<>>
  /\ nu_pc = "idle"

None == "None"

\* ------------------------------------------------------------------------
\* Bounds of the model
\* ------------------------------------------------------------------------
MaxUrlsBound == 3      \* max_urls ranges over 0..MaxUrlsBound
MaxDepthBound == 1     \* max_depth ranges over 0..MaxDepthBound
MaxRetriesBound == 1   \* max_retries ranges over 0..MaxRetriesBound
MaxPathLen == 3        \* tokens in the path of a URL given to normalize_url
MaxGlobalBound == 2    \* filters.max_urls ranges over 0..MaxGlobalBound
MaxSources == 2        \* configured sources
MaxCollected == 3      \* URLs the sources of one run produce together
MaxFilterUrls == 2     \* URLs given to filter_and_group_urls
MaxPageCount == 3      \* pages that reach the group limits
MaxLimitBound == 2     \* group limits, default limit and max_pages
MaxLocs == 2           \* <loc> elements of one sitemap document

\* ------------------------------------------------------------------------
\* The site the crawler runs against: a fixed universe of normalized URLs.
\* ------------------------------------------------------------------------
RootUrl == "https://example.com/"
PricingUrl == "https://example.com/pricing"
AboutUrl == "https://example.com/about"
CareersUrl == "https://example.com/careers"
SubUrl == "https://docs.example.com/start"
ExtUrl == "https://other.org/"
PngUrl == "https://example.com/logo.png"

\* A second group of pages, linked only among themselves
HubUrl == "https://example.com/hub"
GuidesUrl == "https://example.com/guides"
ApiUrl == "https://example.com/guides/api"
JobsUrl == "https://example.com/jobs"
HelpUrl == "https://example.com/help"
FaqUrl == "https://example.com/faq"
PressUrl == "https://example.com/press"

HubUrls == {HubUrl, GuidesUrl, ApiUrl, JobsUrl, HelpUrl, FaqUrl, PressUrl}

Urls == {RootUrl, PricingUrl, AboutUrl, CareersUrl, SubUrl, ExtUrl, PngUrl}
          \cup HubUrls

\* urlparse(url).netloc.lower(), as the sequence of its dot-separated labels
HostOf(u) ==
  CASE u = SubUrl -> <<"docs", "example", "com">>
    [] u = ExtUrl -> <<"other", "org">>
    [] OTHER -> <<"example", "com">>

\* urlparse(url).path.lower(), as the sequence of its segments
PathOf(u) ==
  CASE u = PricingUrl -> <<"pricing">>
    [] u = AboutUrl -> <<"about">>
    [] u = CareersUrl -> <<"careers">>
    [] u = SubUrl -> <<"start">>
    [] u = PngUrl -> <<"logo.png">>
    [] u = HubUrl -> <<"hub">>
    [] u = GuidesUrl -> <<"guides">>
    [] u = ApiUrl -> <<"guides", "api">>
    [] u = JobsUrl -> <<"jobs">>
    [] u = HelpUrl -> <<"help">>
    [] u = FaqUrl -> <<"faq">>
    [] u = PressUrl -> <<"press">>
    [] OTHER -> <<>>

SeqRange(s) == {s[i] : i \in 1..Len(s)}

high_priority == {"products", "pricing", "docs", "documentation", "features",
                  "solutions", "api", "guides", "blog"}
medium_priority == {"resources", "case-studies", "about", "contact", "help",
                    "faq", "integrations"}
low_priority == {"careers", "jobs", "press", "news", "legal", "privacy",
                 "terms", "cookies"}

\* A faulty variant of PathPriority: "/blog" is in the medium tier
PathPriorityBlogMedium(segments) ==
  IF SeqRange(segments) \cap (high_priority \ {"blog"}) # {} THEN 3
  ELSE IF SeqRange(segments) \cap (medium_priority \cup {"blog"}) # {} THEN 2
  ELSE IF SeqRange(segments) \cap low_priority # {} THEN 0
  ELSE 1

\* Lines 31-77 of _get_url_priority, on the segments of the lower-cased
\* path: 3, 2, 0 by the tier of the first list that has a member in the
\* path, 1 otherwise
PathPriority(segments) ==
  IF SeqRange(segments) \cap high_priority # {} THEN 3
  ELSE IF SeqRange(segments) \cap medium_priority # {} THEN 2
  ELSE IF SeqRange(segments) \cap low_priority # {} THEN 0
  ELSE 1

\* _get_url_priority on a URL of the site
_get_url_priority(u) == PathPriority(PathOf(u))

\* should_skip_by_extension: the path ends with one of _SKIP_EXTENSIONS
should_skip_by_extension(u) == u = PngUrl

root_domain == <<"example", "com">>

\* is_same_root_domain(host, root_domain):
\* host == root_domain or host.endswith("." + root_domain)
is_same_root_domain(host, root) ==
  /\ host # <<>>
  /\ root # <<>>
  /\ \/ host = root
     \/ /\ Len(host) > Len(root)
        /\ SubSeq(host, Len(host) - Len(root) + 1, Len(host)) = root

\* _is_allowed_domain(url, allowed_hosts)
_is_allowed_domain(u, hosts) == HostOf(u) # <<>> /\ HostOf(u) \in hosts

allowed_hosts == {<<"example", "com">>}

\* ------------------------------------------------------------------------
\* crawl_site
\* ------------------------------------------------------------------------

\* The order of the heap tuples (-priority, counter, url, depth): the
\* counter is unique, so the comparison never reaches url and depth.
TupleLess(a, b) == a[1] < b[1] \/ (a[1] = b[1] /\ a[2] < b[2])

\* A faulty variant of HeapMin: a plain FIFO queue: the oldest tuple
HeapMinFifo(q) == CHOOSE e \in q : \A f \in q \ {e} : e[2] < f[2]

\* heapq.heappop: the smallest tuple of the heap
HeapMin(q) == CHOOSE e \in q : \A f \in q \ {e} : TupleLess(e, f)

\* The responses a GET can produce: a status and whether the Content-Type
\* is HTML-like ("text/html", "application/xhtml+xml" or absent).
Response(status, html) == [status |-> status, html |-> html]

\* resp = None
NoResp == [status |-> 0, html |-> FALSE]

\* The statuses the retry loop retries after a sleep (lines 241 and 255)
RetryableStatus == {429, 500, 502, 503, 504, 520}

\* A status raise_for_status raises on and the loop does not single out
OtherErrorStatus == {403}

\* The anchors a page of the site may carry
SiteLinks(u) ==
  CASE u = RootUrl -> {PricingUrl, AboutUrl, CareersUrl}
    [] u = PricingUrl -> {RootUrl, SubUrl, PngUrl}
    [] u = AboutUrl -> {CareersUrl, ExtUrl}
    [] u = SubUrl -> {AboutUrl, CareersUrl, ExtUrl}
    [] u = HubUrl -> {GuidesUrl, JobsUrl, PressUrl}
    [] u = GuidesUrl -> {ApiUrl}
    [] u = ApiUrl -> {HelpUrl}
    [] u = JobsUrl -> {HelpUrl}
    [] u = HelpUrl -> {FaqUrl}
    [] OTHER -> {}

StartUrls == {RootUrl, ExtUrl, SubUrl}

\* What a fetch of the page finds in parser.links, in the order the loop
\* visits it: a set in the code, so any order; a page of the first group
\* carries any subset of its anchors, a page of the second group all of them.
LinkSeqs(u) ==
  {s \in UNION {[1..n -> SiteLinks(u)] : n \in 0..Cardinality(SiteLinks(u))} :
     /\ \A i, j \in 1..Len(s) : i # j => s[i] # s[j]
     /\ u \in HubUrls => Len(s) = Cardinality(SiteLinks(u))}

InitCrawl ==
  /\ max_urls \in 0..MaxUrlsBound
  /\ max_depth \in 0..MaxDepthBound
  /\ max_retries \in 0..MaxRetriesBound
  /\ allow_same_root_subdomains \in BOOLEAN
  /\ has_sink \in BOOLEAN
  /\ start_url \in StartUrls
  /\ visited = {}
  /\ results = <<>>
  /\ queue = {<<-_get_url_priority(start_url), 0, start_url, 0>>}
  /\ counter = 1
  /\ dynamic_allowed_hosts = allowed_hosts
  /\ failed_urls = <<>>
  /\ pc = "loop"
  /\ current = None
  /\ depth = 0
  /\ attempt = 0
  /\ resp = NoResp
  /\ last_err = 0
  /\ attemptLog = <<>>
  /\ fetchStarts = [u \in Urls |-> 0]
  /\ popped = <<>>
  /\ IdleNorm
  /\ IdleCollect
  /\ IdleFilter
  /\ IdleLimit
  /\ IdleSitemap
  /\ IdleFunc
  /\ IdleRun

\* A faulty variant of AdmitsSubdomain: the policy admits any host
AdmitsAnyHost(host) == allow_same_root_subdomains

\* The subdomain policy of lines 211-215 and 335-339
AdmitsSubdomain(host) ==
  /\ allow_same_root_subdomains
  /\ root_domain # <<>>
  /\ is_same_root_domain(host, root_domain)

\* The guard of the main loop (line 191)
LoopGuard == queue # {} /\ Len(results) < max_urls

\* A faulty variant of MayEnqueue: the push is not guarded by the result count
MayEnqueueAlways(res) == TRUE

\* The guard of a push (line 347), on the result list as it is then
MayEnqueue(res) == Len(res) < max_urls

\* Lines 327-351: the loop over parser.links, from anchor i on.
RECURSIVE PushLinks(_, _, _, _, _, _)
PushLinks(links, i, q, c, dyn, res) ==
  IF i > Len(links) THEN [q |-> q, c |-> c, dyn |-> dyn]
  ELSE
    LET abs_url == links[i]
        skip == should_skip_by_extension(abs_url)
        dyn2 == IF ~skip /\ AdmitsSubdomain(HostOf(abs_url))
                THEN dyn \cup {HostOf(abs_url)} ELSE dyn
        push == /\ ~skip
                /\ abs_url \notin visited
                /\ _is_allowed_domain(abs_url, dyn2)
                /\ MayEnqueue(res)
    IN  PushLinks(links, i + 1,
                  IF push
                  THEN q \cup {<<-_get_url_priority(abs_url), c, abs_url, depth + 1>>}
                  ELSE q,
                  IF push THEN c + 1 ELSE c,
                  dyn2, res)

\* Back at the top of the while loop the locals of the body are dead: they
\* are assigned again (lines 225-227) before they are read.
ClearLocals ==
  /\ attempt' = 0
  /\ resp' = NoResp
  /\ last_err' = 0
  /\ attemptLog' = <<>>

\* Lines 191-227: pop the smallest tuple, then the visited check, the domain
\* check and the extension check; a URL that passes enters the retry loop.
Dequeue ==
  /\ pc = "loop"
  /\ LoopGuard
  /\ LET e == HeapMin(queue)
         url == e[3]
         allowed == _is_allowed_domain(url, dynamic_allowed_hosts)
         admit == AdmitsSubdomain(HostOf(url))
         fetches == /\ url \notin visited
                    /\ allowed \/ admit
                    /\ ~should_skip_by_extension(url)
     IN  /\ queue' = queue \ {e}
         /\ popped' = e
         /\ current' = url
         /\ depth' = e[4]
         /\ visited' = visited \cup {url}
         /\ dynamic_allowed_hosts' =
              IF url \notin visited /\ ~allowed /\ admit
              THEN dynamic_allowed_hosts \cup {HostOf(url)}
              ELSE dynamic_allowed_hosts
         /\ pc' = IF fetches THEN "fetch" ELSE "loop"
         /\ fetchStarts' = IF fetches
                           THEN [fetchStarts EXCEPT ![url] = @ + 1]
                           ELSE fetchStarts
  /\ ClearLocals
  /\ UNCHANGED <<max_urls, max_depth, max_retries, allow_same_root_subdomains,
                 has_sink, start_url, results, counter, failed_urls>>
  /\ UNCHANGED crawlRest

crawlParams == <<max_urls, max_depth, max_retries, allow_same_root_subdomains,
                 has_sink, start_url>>

\* A faulty variant of FetchNotFound: a 404 is retried like a 5xx
FetchNotFoundRetried ==
  /\ pc = "fetch"
  /\ attemptLog' = Append(attemptLog, "404")
  /\ resp' = Response(404, TRUE)
  /\ IF attempt < max_retries
     THEN attempt' = attempt + 1 /\ pc' = "fetch"
     ELSE attempt' = attempt /\ pc' = "after"
  /\ UNCHANGED <<crawlParams, visited, results, queue, counter,
                 dynamic_allowed_hosts, failed_urls, current, depth,
                 last_err, fetchStarts, popped>>
  /\ UNCHANGED crawlRest

\* Lines 231-239: the GET returns 404: resp = None and the loop is left.
FetchNotFoundStep ==
  /\ pc = "fetch"
  /\ attemptLog' = Append(attemptLog, "404")
  /\ resp' = NoResp
  /\ pc' = "after"
  /\ UNCHANGED <<crawlParams, visited, results, queue, counter,
                 dynamic_allowed_hosts, failed_urls, current, depth, attempt,
                 last_err, fetchStarts, popped>>

\* The 404 of a session without a retry adapter
FetchNotFound ==
  /\ FetchNotFoundStep
  /\ UNCHANGED crawlRest

\* Lines 241-261: the GET returns 429 or a retried 5xx: sleep, then
\* `continue`; after the last attempt the for loop ends with resp still the
\* response.
FetchRetryableStep(statuses) ==
  /\ pc = "fetch"
  /\ \E status \in statuses, html \in BOOLEAN :
       /\ attemptLog' = Append(attemptLog, "retryable")
       /\ resp' = Response(status, html)
  /\ IF attempt < max_retries
     THEN attempt' = attempt + 1 /\ pc' = "fetch"
     ELSE attempt' = attempt /\ pc' = "after"
  /\ UNCHANGED <<crawlParams, visited, results, queue, counter,
                 dynamic_allowed_hosts, failed_urls, current, depth,
                 last_err, fetchStarts, popped>>

\* A retried status from a session without a retry adapter
FetchRetryable ==
  /\ FetchRetryableStep(RetryableStatus)
  /\ UNCHANGED crawlRest

\* Lines 231, 262-263: the GET returns a 2xx: raise_for_status passes, break.
FetchOkStep ==
  /\ pc = "fetch"
  /\ \E html \in BOOLEAN :
       /\ attemptLog' = Append(attemptLog, "ok")
       /\ resp' = Response(200, html)
  /\ pc' = "after"
  /\ UNCHANGED <<crawlParams, visited, results, queue, counter,
                 dynamic_allowed_hosts, failed_urls, current, depth, attempt,
                 last_err, fetchStarts, popped>>

\* A 2xx from a session without a retry adapter
FetchOk ==
  /\ FetchOkStep
  /\ UNCHANGED crawlRest

\* Lines 264-274: session.get raises (a transport error, logged as -1), or
\* raise_for_status raises on another non-2xx status. last_err is set; the
\* last attempt sets resp = None and breaks, an earlier one sleeps and the
\* loop goes on.
FetchErrorStep ==
  /\ pc = "fetch"
  /\ \E err \in {-1} \cup OtherErrorStatus :
       /\ attemptLog' = Append(attemptLog,
                               IF err = -1 THEN "transport" ELSE "status_error")
       /\ last_err' = err
       /\ IF attempt >= max_retries
          THEN resp' = NoResp /\ attempt' = attempt /\ pc' = "after"
          ELSE /\ resp' = IF err = -1 THEN resp ELSE Response(err, TRUE)
               /\ attempt' = attempt + 1
               /\ pc' = "fetch"
  /\ UNCHANGED <<crawlParams, visited, results, queue, counter,
                 dynamic_allowed_hosts, failed_urls, current, depth,
                 fetchStarts, popped>>

\* An exception from a session without a retry adapter
FetchError ==
  /\ FetchErrorStep
  /\ UNCHANGED crawlRest

\* Lines 280-292: the status inferred from str(last_err)
InferredStatus(err) == IF err \in {404, 403, 500, 502, 503} THEN err ELSE 0

\* FailedURLRecord: {"url", "error", "status_code"}
FailedURLRecord(u, err) ==
  [url |-> u, error |-> err, status_code |-> InferredStatus(err)]

\* Lines 276-300: resp is None: the failure is recorded in the sink, if one
\* was supplied, and the loop goes on.
RecordFailure ==
  /\ pc = "after"
  /\ resp = NoResp
  /\ failed_urls' = IF has_sink
                    THEN Append(failed_urls, FailedURLRecord(current, last_err))
                    ELSE failed_urls
  /\ pc' = "loop"
  /\ ClearLocals
  /\ UNCHANGED <<crawlParams, visited, results, queue, counter,
                 dynamic_allowed_hosts, current, depth, fetchStarts, popped>>
  /\ UNCHANGED crawlRest

\* Lines 303-312: a response that is not HTML-like is dropped.
DiscardNonHtml ==
  /\ pc = "after"
  /\ resp # NoResp
  /\ ~resp.html
  /\ pc' = "loop"
  /\ ClearLocals
  /\ UNCHANGED <<crawlParams, visited, results, queue, counter,
                 dynamic_allowed_hosts, failed_urls, current, depth,
                 fetchStarts, popped>>
  /\ UNCHANGED crawlRest

\* Lines 303-322: an HTML-like response is appended to the results; no link
\* is extracted at max_depth (line 313) nor, at any depth, when parser.feed
\* raises (lines 318-322).
AcceptWithoutLinks ==
  /\ pc = "after"
  /\ resp # NoResp
  /\ resp.html
  /\ results' = Append(results, current)
  /\ pc' = "loop"
  /\ ClearLocals
  /\ UNCHANGED <<crawlParams, visited, queue, counter, dynamic_allowed_hosts,
                 failed_urls, current, depth, fetchStarts, popped>>
  /\ UNCHANGED crawlRest

\* A faulty variant of AcceptAndEnqueue: links are extracted at any depth
AcceptAndEnqueueAtAnyDepth ==
  /\ pc = "after"
  /\ resp # NoResp
  /\ resp.html
  /\ results' = Append(results, current)
  /\ \E links \in LinkSeqs(current) :
       LET r == PushLinks(links, 1, queue, counter, dynamic_allowed_hosts,
                          results')
       IN  /\ queue' = r.q
           /\ counter' = r.c
           /\ dynamic_allowed_hosts' = r.dyn
  /\ pc' = "loop"
  /\ ClearLocals
  /\ UNCHANGED <<crawlParams, visited, failed_urls, current, depth,
                 fetchStarts, popped>>
  /\ UNCHANGED crawlRest

\* Lines 303-351: an HTML-like response below max_depth is appended to the
\* results and its anchors are pushed.
AcceptAndEnqueue ==
  /\ pc = "after"
  /\ resp # NoResp
  /\ resp.html
  /\ depth < max_depth
  /\ results' = Append(results, current)
  /\ \E links \in LinkSeqs(current) :
       LET r == PushLinks(links, 1, queue, counter, dynamic_allowed_hosts,
                          results')
       IN  /\ queue' = r.q
           /\ counter' = r.c
           /\ dynamic_allowed_hosts' = r.dyn
  /\ pc' = "loop"
  /\ ClearLocals
  /\ UNCHANGED <<crawlParams, visited, failed_urls, current, depth,
                 fetchStarts, popped>>
  /\ UNCHANGED crawlRest

\* Lines 303-329: as AcceptAndEnqueue, on a page with an anchor such as
\* <a href="http://[bad">: the anchors the loop visits before it are
\* pushed, then urljoin (line 328) raises ValueError, which no try block of
\* crawl_site covers: the exception leaves crawl_site.
UrljoinRaises ==
  /\ pc = "after"
  /\ resp # NoResp
  /\ resp.html
  /\ depth < max_depth
  /\ results' = Append(results, current)
  /\ \E links \in LinkSeqs(current) :
       LET r == PushLinks(links, 1, queue, counter, dynamic_allowed_hosts,
                          results')
       IN  /\ queue' = r.q
           /\ counter' = r.c
           /\ dynamic_allowed_hosts' = r.dyn
  /\ pc' = "raised"
  /\ UNCHANGED <<crawlParams, visited, failed_urls, current, depth, attempt,
                 resp, last_err, attemptLog, fetchStarts, popped>>
  /\ UNCHANGED crawlRest

\* Lines 191, 353-364: the loop guard fails and the results are returned.
Return ==
  /\ pc = "loop"
  /\ ~LoopGuard
  /\ pc' = "done"
  /\ UNCHANGED <<crawlParams, visited, results, queue, counter,
                 dynamic_allowed_hosts, failed_urls, current, depth, attempt,
                 resp, last_err, attemptLog, fetchStarts, popped>>
  /\ UNCHANGED crawlRest

NextCrawl ==
  \/ Dequeue
  \/ FetchNotFound
  \/ FetchRetryable
  \/ FetchOk
  \/ FetchError
  \/ RecordFailure
  \/ DiscardNonHtml
  \/ AcceptWithoutLinks
  \/ AcceptAndEnqueue
  \/ UrljoinRaises
  \/ Return

SpecCrawl == InitCrawl /\ [][NextCrawl]_vars

\* crawl_site is sequential code: whenever a step can be taken, one is
SpecCrawlLive == SpecCrawl /\ WF_vars(NextCrawl)

\* ------------------------------------------------------------------------
\* Claims about crawl_site
\* ------------------------------------------------------------------------

\* Every attempt of the retry loop of `current` ended in a retryable outcome
\* and the loop has used all its max_retries + 1 attempts.
RetriesExhausted ==
  /\ pc = "after"
  /\ Len(attemptLog) = max_retries + 1
  /\ \A i \in 1..Len(attemptLog) : attemptLog[i] \in {"retryable", "transport"}

\* C1: when every one of the max_retries + 1 attempts for a URL ends in a
\* retryable outcome (429, a retried 5xx, a transport exception), the URL
\* is not added to the results, no link is extracted from it (the frontier
\* is left as it is), exactly one FailedURLRecord for it is appended to the
\* sink when there is one, and the crawl goes on with the next entry.
C1_ExhaustedRetriesAreRecorded ==
  [][RetriesExhausted =>
       /\ results' = results
       /\ queue' = queue
       /\ has_sink =>
            /\ Len(failed_urls') = Len(failed_urls) + 1
            /\ failed_urls'[Len(failed_urls')].url = current
            /\ SubSeq(failed_urls', 1, Len(failed_urls)) = failed_urls
       /\ pc' = "loop"]_vars

\* C2: a 404 ends the fetching of its URL: it is the last GET of the retry
\* loop, so a 404 on the first attempt means exactly one GET whatever
\* max_retries is, and no URL has a second retry loop started for it.
C2_NotFoundIsNeverRetried ==
  /\ \A i \in 1..Len(attemptLog) :
       attemptLog[i] = "404" => (i = Len(attemptLog) /\ pc # "fetch")
  /\ (Len(attemptLog) >= 1 /\ attemptLog[1] = "404") => Len(attemptLog) = 1
  /\ \A u \in Urls : fetchStarts[u] <= 1

\* C2 witness: a first attempt returned 404 with retries left.
C2_Witness ==
  /\ pc = "after"
  /\ attemptLog = <<"404">>
  /\ max_retries >= 1

Delims == {":", "/", "?", "#"}

IsWord(t) == t \notin Delims

\* str.lower() on a word
Lower(t) ==
  CASE t = "A.com" -> "a.com"
    [] t = "HTTP" -> "http"
    [] t = "Blog" -> "blog"
    [] OTHER -> t

LowerSeq(s) == [i \in 1..Len(s) |-> Lower(s[i])]

Min(S) == CHOOSE m \in S : \A n \in S : m <= n

\* str.find from position `start` (1-based; 0 when absent)
Find(s, t, start) ==
  LET idx == {i \in start..Len(s) : s[i] = t}
  IN  IF idx = {} THEN 0 ELSE Min(idx)

Take(s, n) == SubSeq(s, 1, n)
Drop(s, n) == SubSeq(s, n + 1, Len(s))

\* The last step of urlparse: the query is what follows the first "?" of the
\* text between the netloc and the fragment
SplitQuery(scheme, netloc, rest, fragment) ==
  LET q == Find(rest, "?", 1)
  IN  [scheme |-> scheme,
       netloc |-> netloc,
       path |-> IF q > 0 THEN Take(rest, q - 1) ELSE rest,
       query |-> IF q > 0 THEN Drop(rest, q) ELSE <<>>,
       fragment |-> fragment]

\* urllib.parse.urlparse, on strings without ";": the scheme is the
\* lower-cased run of scheme characters before the first ":", the netloc is
\* what follows a leading "//" up to the next "/", "?" or "#", the fragment
\* is what follows the first "#" of the rest, the query what follows the
\* first "?" before the fragment.
urlparse(url) ==
  LET i == Find(url, ":", 1)
      hasScheme == i > 1 /\ \A k \in 1..(i - 1) : IsWord(url[k])
      scheme == IF hasScheme THEN LowerSeq(Take(url, i - 1)) ELSE <<>>
      u1 == IF hasScheme THEN Drop(url, i) ELSE url
      hasNetloc == Len(u1) >= 2 /\ u1[1] = "/" /\ u1[2] = "/"
      delims == {k \in 3..Len(u1) : u1[k] \in {"/", "?", "#"}}
      delim == IF delims = {} THEN Len(u1) + 1 ELSE Min(delims)
      netloc == IF hasNetloc THEN SubSeq(u1, 3, delim - 1) ELSE <<>>
      u2 == IF hasNetloc THEN Drop(u1, delim - 1) ELSE u1
      h == Find(u2, "#", 1)
  IN  SplitQuery(scheme, netloc,
                 IF h > 0 THEN Take(u2, h - 1) ELSE u2,
                 IF h > 0 THEN Drop(u2, h) ELSE <<>>)

\* The members of urllib.parse.uses_netloc among the schemes of the model
uses_netloc == {<<"http">>, <<"https">>, <<"ftp">>}

\* urllib.parse.urlunparse with empty params
urlunparse(scheme, netloc, path, query, fragment) ==
  LET slashes == Len(path) >= 2 /\ path[1] = "/" /\ path[2] = "/"
      withNetloc == \/ netloc # <<>>
                    \/ (scheme # <<>> /\ scheme \in uses_netloc /\ ~slashes)
      rooted == IF path # <<>> /\ path[1] # "/" THEN <<"/">> \o path ELSE path
      u1 == IF withNetloc THEN <<"/", "/">> \o netloc \o rooted ELSE path
      u2 == IF scheme # <<>> THEN scheme \o <<":">> \o u1 ELSE u1
      u3 == IF query # <<>> THEN u2 \o <<"?">> \o query ELSE u2
  IN  IF fragment # <<>> THEN u3 \o <<"#">> \o fragment ELSE u3

\* str.rstrip("/")
RECURSIVE RStripSlash(_)
RStripSlash(s) ==
  IF s # <<>> /\ s[Len(s)] = "/" THEN RStripSlash(Take(s, Len(s) - 1)) ELSE s

\* Lines 60-69 of normalize_url, on the parsed URL
Rebuilt(parsed, prefer_https, drop_fragment, strip_trailing_slash) ==
  LET scheme0 == IF parsed.scheme # <<>> THEN parsed.scheme ELSE <<"https">>
      scheme == IF prefer_https /\ scheme0 \in {<<"http">>, <<"https">>}
                THEN <<"https">> ELSE scheme0
      netloc == LowerSeq(parsed.netloc)
      path0 == IF parsed.path # <<>> THEN parsed.path ELSE <<"/">>
      path == IF strip_trailing_slash /\ path0 # <<"/">>
                 /\ path0[Len(path0)] = "/"
              THEN RStripSlash(path0) ELSE path0
      fragment == IF drop_fragment THEN <<>> ELSE parsed.fragment
  IN  urlunparse(scheme, netloc, path, parsed.query, fragment)

\* normalize_url(url, prefer_https, drop_fragment, strip_trailing_slash)
normalize_url(url, prefer_https, drop_fragment, strip_trailing_slash) ==
  Rebuilt(urlparse(url), prefer_https, drop_fragment, strip_trailing_slash)

\* The URL strings given to normalize_url: an optional scheme, an optional
\* "//" authority, a path of at most MaxPathLen tokens, an optional fragment.
SchemeParts == {<<>>, <<"http", ":">>, <<"https", ":">>, <<"HTTP", ":">>,
                <<"ftp", ":">>}
AuthorityParts == {<<>>, <<"/", "/", "a.com">>, <<"/", "/", "A.com">>}
PathParts ==
  {q \in UNION {[1..n -> {"/", "x"}] : n \in 0..MaxPathLen} :
     \A i \in 1..(Len(q) - 1) : ~(q[i] = "x" /\ q[i + 1] = "x")}
FragmentParts == {<<>>, <<"#">>, <<"#", "f">>}

UrlInputs ==
  {s \o a \o q \o f :
     s \in SchemeParts, a \in AuthorityParts, q \in PathParts,
     f \in FragmentParts}

InitNorm ==
  /\ nu_url \in UrlInputs
  /\ nu_flags \in [prefer_https : BOOLEAN, drop_fragment : BOOLEAN,
                   strip_trailing_slash : BOOLEAN]
  /\ nu_first = <<>>
  /\ nu_second = <<>>
  /\ nu_pc = "start"
  /\ IdleCrawl
  /\ IdleCollect
  /\ IdleFilter
  /\ IdleLimit
  /\ IdleSitemap
  /\ IdleFunc
  /\ IdleRun

Normalize(u) ==
  normalize_url(u, nu_flags.prefer_https, nu_flags.drop_fragment,
                nu_flags.strip_trailing_slash)

\* normalize_url(url)
NormalizeOnce ==
  /\ nu_pc = "start"
  /\ nu_first' = Normalize(nu_url)
  /\ nu_pc' = "once"
  /\ UNCHANGED <<nu_url, nu_flags, nu_second>>
  /\ UNCHANGED normRest

\* normalize_url(normalize_url(url))
NormalizeTwice ==
  /\ nu_pc = "once"
  /\ nu_second' = Normalize(nu_first)
  /\ nu_pc' = "twice"
  /\ UNCHANGED <<nu_url, nu_flags, nu_first>>
  /\ UNCHANGED normRest

NextNorm == NormalizeOnce \/ NormalizeTwice

SpecNorm == InitNorm /\ [][NextNorm]_vars

\* ------------------------------------------------------------------------
\* Claims about normalize_url
\* ------------------------------------------------------------------------

\* C8: normalize_url is idempotent for every input and every choice of the
\* flags: normalize_url(normalize_url(u)) = normalize_url(u); and with
\* strip_trailing_slash the root path stays "/" while any other path comes
\* out without a trailing slash.
C8_NormalizeIsIdempotent ==
  /\ nu_pc = "twice" => nu_second = nu_first
  /\ (nu_pc \in {"once", "twice"} /\ nu_flags.strip_trailing_slash) =>
       LET pin == urlparse(nu_url).path
           pout == urlparse(nu_first).path
       IN  /\ pin \in {<<>>, <<"/">>} => pout = <<"/">>
           /\ pout = <<>> \/ pout = <<"/">> \/ pout[Len(pout)] # "/"

\* ------------------------------------------------------------------------
\* collect_urls_from_sources (sitemap.py)
\* ------------------------------------------------------------------------

\* The URL strings the sources of the model can produce
UrlPool ==
  {<<"https", ":", "/", "/", "a.com", "/", "x">>,
   <<"https", ":", "/", "/", "A.com", "/", "x", "/">>,
   <<"http", ":", "/", "/", "a.com", "/", "x", "#", "f">>,
   <<"https", ":", "/", "/", "a.com", "/">>,
   <<"https", ":", "/", "/", "a.com", "/", "/">>,
   <<"https", ":", "/", "/", "a.com", "/", "zh", "/", "x">>,
   <<"https", ":", "/", "/", "b.com", "/", "x">>}

\* config.site.allowed_domains
allowed_domains == {<<"a.com">>}

\* _is_allowed_domain(config, url) of sitemap.py
_is_allowed_domain_cfg(u) ==
  LET host == LowerSeq(urlparse(u).netloc)
  IN  host # <<>> /\ host \in allowed_domains

\* SourceConfig: the type and the per-source max_urls (0: the global one)
SourceConfigs == [type : {"sitemap", "crawl", "static"}, max_urls : {0, 1}]

\* The lists of at most n URLs of a set
ListsUpTo(S, n) == UNION {[1..k -> S] : k \in 0..n}

\* What the list of collected URLs still has room for in the model
Room == MaxCollected - Len(collected)

InitCollect ==
  /\ col_max_urls \in 0..MaxGlobalBound
  /\ col_sources \in UNION {[1..k -> SourceConfigs] : k \in 1..MaxSources}
  /\ \A i \in 1..Len(col_sources) :
       col_sources[i].type # "crawl" => col_sources[i].max_urls = 0
  /\ col_idx = 1
  /\ collected = <<>>
  /\ unique = <<>>
  /\ col_trace = <<>>
  /\ col_pc = "sources"
  /\ IdleCrawl
  /\ IdleNorm
  /\ IdleFilter
  /\ IdleLimit
  /\ IdleSitemap
  /\ IdleFunc
  /\ IdleRun

\* What one source (or the robots.txt fallback) added to `collected`
Yield(from, urls) == [from |-> from, count |-> Len(urls)]

\* The step to the next source, or out of the loop after the last one
NextSource ==
  /\ col_idx' = col_idx + 1
  /\ col_pc' = IF col_idx = Len(col_sources) THEN "fallback" ELSE "sources"

AtSource(type) ==
  /\ col_pc = "sources"
  /\ col_idx <= Len(col_sources)
  /\ Len(collected) < col_max_urls
  /\ col_sources[col_idx].type = type

\* Lines 219-224: the global budget is used up: the remaining sources are
\* skipped.
BudgetBreak ==
  /\ col_pc = "sources"
  /\ col_idx <= Len(col_sources)
  /\ Len(collected) >= col_max_urls
  /\ col_pc' = "fallback"
  /\ UNCHANGED <<col_max_urls, col_sources, col_idx, collected, unique,
                 col_trace>>
  /\ UNCHANGED colRest

\* Lines 226-235: a sitemap source: what _collect_from_sitemap_source
\* returns (the <loc> texts found) is appended.
CollectSitemap ==
  /\ AtSource("sitemap")
  /\ \E urls \in ListsUpTo(UrlPool, Room) :
       /\ collected' = collected \o urls
       /\ col_trace' = Append(col_trace, Yield("sitemap", urls))
  /\ NextSource
  /\ UNCHANGED <<col_max_urls, col_sources, unique>>
  /\ UNCHANGED colRest

\* Lines 236-278: a crawl source: crawl_site runs with max_urls clamped to
\* the remaining global budget and returns at most that many normalized
\* URLs, which are appended.
CollectCrawl ==
  /\ AtSource("crawl")
  /\ LET src == col_sources[col_idx]
         configured == IF src.max_urls # 0 THEN src.max_urls ELSE col_max_urls
         remaining_budget == IF col_max_urls - Len(collected) > 0
                             THEN col_max_urls - Len(collected) ELSE 0
         per_source_max == IF configured > remaining_budget
                           THEN remaining_budget ELSE configured
         limit == IF per_source_max < Room THEN per_source_max ELSE Room
     IN  \E urls \in ListsUpTo({normalize_url(u, TRUE, TRUE, TRUE) :
                                  u \in UrlPool}, limit) :
           /\ collected' = collected \o urls
           /\ col_trace' = Append(col_trace, Yield("crawl", urls))
  /\ NextSource
  /\ UNCHANGED <<col_max_urls, col_sources, unique>>
  /\ UNCHANGED colRest

\* Lines 279-289: a static source: its configured URL list is appended.
CollectStatic ==
  /\ AtSource("static")
  /\ \E urls \in ListsUpTo(UrlPool, Room) :
       /\ collected' = collected \o urls
       /\ col_trace' = Append(col_trace, Yield("static", urls))
  /\ NextSource
  /\ UNCHANGED <<col_max_urls, col_sources, unique>>
  /\ UNCHANGED colRest

\* Line 293-294: the condition of the robots.txt fallback
NeedsFallback ==
  /\ \E i \in 1..Len(col_sources) : col_sources[i].type = "sitemap"
  /\ \A i \in 1..Len(collected) : collected[i] = <<>>

\* Lines 293-313: the sitemaps that robots.txt declares are collected from;
\* what they yield (nothing, when robots.txt names none) is appended.
RobotsFallback ==
  /\ col_pc = "fallback"
  /\ NeedsFallback
  /\ \E urls \in ListsUpTo(UrlPool, Room) :
       /\ collected' = collected \o urls
       /\ col_trace' = Append(col_trace, Yield("robots", urls))
  /\ col_pc' = "dedup"
  /\ UNCHANGED <<col_max_urls, col_sources, col_idx, unique>>
  /\ UNCHANGED colRest

SkipFallback ==
  /\ col_pc = "fallback"
  /\ ~NeedsFallback
  /\ col_pc' = "dedup"
  /\ UNCHANGED <<col_max_urls, col_sources, col_idx, collected, unique,
                 col_trace>>
  /\ UNCHANGED colRest

\* Lines 317-337: the loop over collected, from entry i on, with the list
\* `uniq` and the set `seen` (normalized_seen) built so far; allowed[i] is
\* what _is_allowed_domain answers for entry i (line 320) and normalized[i]
\* is what normalize_url makes of it (lines 325-330).
RECURSIVE DedupFrom(_, _, _, _, _)
DedupFrom(i, uniq, seen, allowed, normalized) ==
  IF i > Len(normalized) THEN uniq
  ELSE LET uniq2 == IF allowed[i] /\ normalized[i] \notin seen
                    THEN Append(uniq, normalized[i]) ELSE uniq
       IN  IF allowed[i] /\ Len(uniq2) >= col_max_urls
           THEN uniq2
           ELSE DedupFrom(i + 1, uniq2,
                          IF allowed[i] THEN seen \cup {normalized[i]} ELSE seen,
                          allowed, normalized)

\* Lines 315-344: the final pass, and the return
Deduplicate ==
  /\ col_pc = "dedup"
  /\ unique' = DedupFrom(1, <<>>, {},
                         [i \in 1..Len(collected) |->
                            _is_allowed_domain_cfg(collected[i])],
                         [i \in 1..Len(collected) |->
                            normalize_url(collected[i], TRUE, TRUE, TRUE)])
  /\ col_pc' = "done"
  /\ UNCHANGED <<col_max_urls, col_sources, col_idx, collected, col_trace>>
  /\ UNCHANGED colRest

NextCollect ==
  \/ BudgetBreak
  \/ CollectSitemap
  \/ CollectCrawl
  \/ CollectStatic
  \/ RobotsFallback
  \/ SkipFallback
  \/ Deduplicate

SpecCollect == InitCollect /\ [][NextCollect]_vars

\* ------------------------------------------------------------------------
\* Claims about collect_urls_from_sources
\* ------------------------------------------------------------------------

\* C5: the returned list never holds two URLs with the same canonical form
\* under normalize_url with its three flags set.
C5_NoTwoEntriesShareACanonicalForm ==
  col_pc = "done" =>
    \A i, j \in 1..Len(unique) :
      i # j => normalize_url(unique[i], TRUE, TRUE, TRUE)
                 # normalize_url(unique[j], TRUE, TRUE, TRUE)

\* C6: the returned list has at most filters.max_urls entries and the host
\* of every entry is in site.allowed_domains.
C6_BudgetAndAllowedDomains ==
  col_pc = "done" =>
    /\ Len(unique) <= col_max_urls
    /\ \A i \in 1..Len(unique) : _is_allowed_domain_cfg(unique[i])

\* ------------------------------------------------------------------------
\* filter_and_group_urls (filters.py)
\* ------------------------------------------------------------------------

\* A FilterRule: the pattern is a regular expression made of literal text,
\* with or without a leading "^" and a trailing "$".
Rule(caret, body, dollar, group, priority) ==
  [caret |-> caret, body |-> body, dollar |-> dollar,
   group |-> group, priority |-> priority]

\* re.search(rule.pattern, path) is not None
_match_rule(path, rule) ==
  \E k \in 1..(Len(path) - Len(rule.body) + 1) :
    /\ SubSeq(path, k, k + Len(rule.body) - 1) = rule.body
    /\ rule.caret => k = 1
    /\ rule.dollar => k + Len(rule.body) - 1 = Len(path)

\* A faulty variant of ExactAnchored: every exclude rule counts as anchored
AnchoredAlways(rule) == TRUE

\* r.pattern.startswith("^") and r.pattern.endswith("$")
ExactAnchored(rule) == rule.caret /\ rule.dollar

\* The patterns of _default_exclude_rules that a URL of the model can
\* match: "/search", "[?&]page=\d+" (as the text "?page=2") and "/tag/"
\* (the others need text, such as ".xml" or "/wp-admin/", that no URL of
\* UrlsToFilter has).
_default_exclude_rules ==
  <<Rule(FALSE, <<"/", "search">>, FALSE, None, 0),
    Rule(FALSE, <<"?", "page=2">>, FALSE, None, 0),
    Rule(FALSE, <<"/", "tag", "/">>, FALSE, None, 0)>>

\* filters.include of the configurations of the model
IncludeConfigs ==
  {<<>>,
   <<Rule(TRUE, <<"/", "docs">>, FALSE, "Docs", 1)>>,
   <<Rule(FALSE, <<"post">>, TRUE, None, 0),
     Rule(TRUE, <<"/", "docs">>, FALSE, "Guides", 2)>>}

\* filters.exclude of the configurations of the model
ExcludeConfigs ==
  {<<>>,
   <<Rule(FALSE, <<"blog">>, FALSE, None, 0)>>,
   <<Rule(TRUE, <<"/", "docs", "/", "blog">>, TRUE, None, 0)>>,
   <<Rule(TRUE, <<"/", "docs">>, FALSE, None, 0)>>,
   <<Rule(FALSE, <<"/", "post">>, TRUE, None, 0),
     Rule(TRUE, <<"/", "docs", "/", "blog", "/", "post">>, TRUE, None, 0)>>}

FilterConfigs ==
  [include : IncludeConfigs, exclude : ExcludeConfigs,
   use_default_excludes : BOOLEAN, auto_group : BOOLEAN,
   auto_filter_languages : BOOLEAN]

\* The URLs given to filter_and_group_urls, all of the host a.com
UrlsToFilter ==
  {<<"https", ":", "/", "/", "a.com">> \o path :
     path \in {<<>>,
               <<"/">>,
               <<"/", "docs">>,
               <<"/", "docs", "/", "blog">>,
               <<"/", "docs", "/", "blog", "/", "post">>,
               <<"/", "blog">>,
               <<"/", "blog", "/", "post">>,
               <<"/", "zh", "/", "docs">>,
               <<"/", "search">>,
               <<"/", "blog", "?", "page=2">>}}

\* _relative_path(base_url, url)
_relative_path(u) ==
  LET path == urlparse(u).path
  IN  IF path = <<>> THEN <<"/">> ELSE path

\* [seg for seg in path.split("/") if seg]
Segments(path) == SelectSeq(path, LAMBDA t : t # "/")

\* The two-letter words of the paths of the model
LanguageCodes == {"zh", "en"}

\* site.default_language
default_lang == "en"

\* _detect_language_prefix(path): a two-letter segment between slashes, at
\* the start of the path first, anywhere otherwise
_detect_language_prefix(path) ==
  LET at(i) == /\ i + 2 <= Len(path)
               /\ path[i] = "/"
               /\ path[i + 1] \in LanguageCodes
               /\ path[i + 2] = "/"
      hits == {i \in 1..Len(path) : at(i)}
  IN  IF hits = {} THEN None
      ELSE path[(CHOOSE i \in hits : \A j \in hits : i <= j) + 1]

\* first.replace("-", " ").strip().title()
Title(word) ==
  CASE word = "zh" -> "Zh"
    [] word = "en" -> "En"
    [] word = "tag" -> "Tag"
    [] word = "x" -> "X"
    [] OTHER -> "Other"

\* _auto_group_from_path(path)
_auto_group_from_path(path) ==
  LET segments == Segments(path)
      first == IF segments[1] \in LanguageCodes /\ Len(segments) > 1
               THEN segments[2] ELSE segments[1]
  IN  IF path = <<"/">> THEN "Home"
      ELSE IF segments = <<>> THEN "Other"
      ELSE IF first \in {"blog", "post"} THEN "Blog"
      ELSE IF first = "docs" THEN "Docs"
      ELSE IF first = "search" THEN "SERP"
      ELSE Title(first)

\* _base_group_weight(group)
_base_group_weight(group) ==
  CASE group = "Home" -> 40
    [] group = "Docs" -> 28
    [] group = "Blog" -> 25
    [] group = "SERP" -> 24
    [] OTHER -> 10

\* A faulty variant of _compute_score: depth is a bonus, not a penalty
ScoreDeeperIsBetter(group, priority, path) ==
  LET nsegs == Len(Segments(path))
      path_depth == IF nsegs - 1 > 0 THEN nsegs - 1 ELSE 0
      priority_weight == IF priority > 0 THEN priority * 2 ELSE 0
      bonus == IF path = <<"/">> \/ path = <<>> THEN 10 ELSE 0
      score == _base_group_weight(group) + priority_weight + path_depth * 2 + bonus
  IN  IF score < 0 THEN 0 ELSE IF score > 200 THEN 200 ELSE score

\* _compute_score(group, priority, path)
_compute_score(group, priority, path) ==
  LET nsegs == Len(Segments(path))
      path_depth == IF nsegs - 1 > 0 THEN nsegs - 1 ELSE 0
      priority_weight == IF priority > 0 THEN priority * 2 ELSE 0
      bonus == IF path = <<"/">> \/ path = <<>> THEN 10 ELSE 0
      score == _base_group_weight(group) + priority_weight - path_depth * 2 + bonus
  IN  IF score < 0 THEN 0 ELSE IF score > 200 THEN 200 ELSE score

\* Lines 237-254: the value of `excluded` for a path
Excluded(config, path) ==
  LET exclude_rules == IF config.use_default_excludes
                       THEN _default_exclude_rules \o config.exclude
                       ELSE config.exclude
      has_include_match == \E i \in 1..Len(config.include) :
                             _match_rule(path, config.include[i])
  IN  IF has_include_match
      THEN \E i \in 1..Len(exclude_rules) :
             /\ _match_rule(path, exclude_rules[i])
             /\ ExactAnchored(exclude_rules[i])
      ELSE \E i \in 1..Len(exclude_rules) :
             _match_rule(path, exclude_rules[i])

\* Lines 259-289: the PageEntry of a URL that is kept
PageEntry(config, u, path) ==
  LET hits == {i \in 1..Len(config.include) :
                 _match_rule(path, config.include[i])}
      matched_rule == config.include[CHOOSE i \in hits : \A j \in hits : i <= j]
      group == IF hits # {}
               THEN (IF matched_rule.group # None
                     THEN matched_rule.group ELSE "Other")
               ELSE IF ~config.auto_group THEN "Other"
               ELSE IF path = <<"/">> \/ Segments(path) = <<>> THEN "Home"
               ELSE _auto_group_from_path(path)
      priority == IF hits # {} THEN matched_rule.priority ELSE 0
  IN  [url |-> u, path |-> path, group |-> group, priority |-> priority,
       score |-> _compute_score(group, priority, path)]

\* Lines 230-234: the language filter applies to the path
LanguageFiltered(config, path) ==
  /\ config.auto_filter_languages
  /\ _detect_language_prefix(path) \notin {None, default_lang}

\* The order of Python strings on the group names of the model
GroupRank(group) ==
  CASE group = "Blog" -> 1
    [] group = "Docs" -> 2
    [] group = "En" -> 3
    [] group = "Guides" -> 4
    [] group = "Home" -> 5
    [] group = "Other" -> 6
    [] group = "SERP" -> 7
    [] group = "Tag" -> 8
    [] group = "X" -> 9
    [] group = "Zh" -> 10

\* The order of Python strings on the tokens of a path of the model
TokenRank(t) ==
  CASE t = "/" -> 0
    [] t = "blog" -> 1
    [] t = "docs" -> 2
    [] t = "en" -> 3
    [] t = "post" -> 4
    [] t = "search" -> 5
    [] t = "tag" -> 6
    [] t = "x" -> 7
    [] t = "zh" -> 8

\* p < q for two paths as Python strings
PathLess(p, q) ==
  \E k \in 1..(Len(q)) :
    /\ \A i \in 1..(k - 1) : i <= Len(p) /\ p[i] = q[i]
    /\ \/ k = Len(p) + 1
       \/ k <= Len(p) /\ TokenRank(p[k]) < TokenRank(q[k])

\* A faulty variant of KeyLess: the score ascending
KeyLessScoreAscending(a, b) ==
  \/ GroupRank(a.group) < GroupRank(b.group)
  \/ /\ a.group = b.group
     /\ \/ a.score < b.score
        \/ a.score = b.score /\ PathLess(a.path, b.path)

\* (a.group, -a.score, a.path) < (b.group, -b.score, b.path)
KeyLess(a, b) ==
  \/ GroupRank(a.group) < GroupRank(b.group)
  \/ /\ a.group = b.group
     /\ \/ a.score > b.score
        \/ a.score = b.score /\ PathLess(a.path, b.path)

\* list.sort(key=...): a stable sort, here by insertion
RECURSIVE SortEntries(_)
SortEntries(entries) ==
  IF entries = <<>> THEN <<>>
  ELSE LET sorted == SortEntries(SubSeq(entries, 1, Len(entries) - 1))
           e == entries[Len(entries)]
           k == Cardinality({i \in 1..Len(sorted) : ~KeyLess(e, sorted[i])})
       IN  SubSeq(sorted, 1, k) \o <<e>> \o SubSeq(sorted, k + 1, Len(sorted))

InitFilter ==
  /\ fl_config \in FilterConfigs
  /\ fl_urls \in ListsUpTo(UrlsToFilter, MaxFilterUrls)
  /\ fl_idx = 1
  /\ fl_results = <<>>
  /\ fl_fate = <<>>
  /\ fl_pc = "loop"
  /\ IdleCrawl
  /\ IdleNorm
  /\ IdleCollect
  /\ IdleLimit
  /\ IdleSitemap
  /\ IdleFunc
  /\ IdleRun

\* One iteration of the for loop has run
Advance(fate) ==
  /\ fl_idx' = fl_idx + 1
  /\ fl_fate' = Append(fl_fate, fate)
  /\ UNCHANGED <<fl_config, fl_urls, fl_pc>>

InLoop == fl_pc = "loop" /\ fl_idx <= Len(fl_urls)

\* Lines 227-234: a URL of another language than the default is skipped
SkipLanguage ==
  /\ InLoop
  /\ LanguageFiltered(fl_config, _relative_path(fl_urls[fl_idx]))
  /\ Advance("language")
  /\ UNCHANGED fl_results
  /\ UNCHANGED filterRest

SkipOrKeep(path) ==
  /\ ~LanguageFiltered(fl_config, path)
  /\ IF Excluded(fl_config, path)
     THEN Advance("excluded") /\ UNCHANGED fl_results
     ELSE /\ Advance("kept")
          /\ fl_results' = Append(fl_results,
                                  PageEntry(fl_config, fl_urls[fl_idx], path))

\* Lines 236-257: an excluded URL is skipped;
\* lines 259-292: any other URL gets its group, priority and score and is
\* appended to results.
ExcludeOrAppend ==
  /\ InLoop
  /\ SkipOrKeep(_relative_path(fl_urls[fl_idx]))
  /\ UNCHANGED filterRest

\* Lines 294-296: the sort, and the return
SortAndReturn ==
  /\ fl_pc = "loop"
  /\ fl_idx > Len(fl_urls)
  /\ fl_results' = SortEntries(fl_results)
  /\ fl_pc' = "done"
  /\ UNCHANGED <<fl_config, fl_urls, fl_idx, fl_fate>>
  /\ UNCHANGED filterRest

NextFilter ==
  \/ SkipLanguage
  \/ ExcludeOrAppend
  \/ SortAndReturn

SpecFilter == InitFilter /\ [][NextFilter]_vars

\* ------------------------------------------------------------------------
\* Claims about filter_and_group_urls
\* ------------------------------------------------------------------------

\* C9: a URL whose path matches an include rule is dropped by exclusion
\* only if it matches an exclude rule whose pattern starts with "^" and ends
\* with "$" (so it is kept when every exclude rule it matches is not
\* anchored so, like /docs/blog/post under include ^/docs and exclude blog);
\* a URL whose path matches no include rule is dropped when it matches any
\* exclude rule.
C9_IncludeNarrowsExclusion ==
  \A i \in 1..Len(fl_fate) :
    LET path == _relative_path(fl_urls[i])
        rules == (IF fl_config.use_default_excludes
                  THEN _default_exclude_rules ELSE <<>>) \o fl_config.exclude
        included == \E k \in 1..Len(fl_config.include) :
                      _match_rule(path, fl_config.include[k])
        anchored_hit == \E k \in 1..Len(rules) :
                          /\ _match_rule(path, rules[k])
                          /\ rules[k].caret /\ rules[k].dollar
        any_hit == \E k \in 1..Len(rules) : _match_rule(path, rules[k])
    IN  /\ (included /\ fl_fate[i] = "excluded") => anchored_hit
        /\ (included /\ ~anchored_hit /\ fl_fate[i] # "language") =>
             /\ fl_fate[i] = "kept"
             /\ \E j \in 1..Len(fl_results) : fl_results[j].url = fl_urls[i]
        /\ (~included /\ any_hit) => fl_fate[i] # "kept"

C9_Witness ==
  /\ fl_pc = "done"
  /\ fl_config.include = <<Rule(TRUE, <<"/", "docs">>, FALSE, "Docs", 1)>>
  /\ fl_config.exclude = <<Rule(FALSE, <<"blog">>, FALSE, None, 0)>>
  /\ \E i \in 1..Len(fl_fate) :
       /\ _relative_path(fl_urls[i]) = <<"/", "docs", "/", "blog", "/", "post">>
       /\ fl_fate[i] = "kept"
  /\ \E i \in 1..Len(fl_fate) :
       /\ _relative_path(fl_urls[i]) = <<"/", "blog">>
       /\ fl_fate[i] = "excluded"

\* ------------------------------------------------------------------------
\* Group limits and max_pages of _generate_llms_from_urls (generator.py)
\* ------------------------------------------------------------------------

\* The PageEntry values that reach the limits (url left out: the group, the
\* score and the path are all the limits read)
PagePool ==
  [group : {"Blog", "Docs"}, score : {1, 2},
   path : {<<"/", "blog">>, <<"/", "docs">>}]

\* pages is sorted by (group, -score, path), as filter_and_group_urls
\* returns it
IsSortedByKey(pages) ==
  \A i \in 1..(Len(pages) - 1) : ~KeyLess(pages[i + 1], pages[i])

\* An Optional[int]: <<>> is None and <<n>> is n
OptionalInts == {<<>>} \cup {<<n>> : n \in 0..MaxLimitBound}

\* filters.group_limits (a dict, here with the key "Blog" or empty),
\* filters.default_group_limit and the argument max_pages
LimitConfigs ==
  [group_limits : OptionalInts, default_limit : OptionalInts,
   max_pages : OptionalInts]

InitLimit ==
  /\ lp_config \in LimitConfigs
  /\ lp_input \in ListsUpTo(PagePool, MaxPageCount)
  /\ lp_input # <<>>
  /\ IsSortedByKey(lp_input)
  /\ lp_pages = lp_input
  /\ lp_limited = <<>>
  /\ lp_pc = "limits"
  /\ IdleCrawl
  /\ IdleNorm
  /\ IdleCollect
  /\ IdleFilter
  /\ IdleSitemap
  /\ IdleFunc
  /\ IdleRun

\* An Optional[int] that is neither None nor <= 0
IsPositive(opt) == opt # <<>> /\ opt[1] > 0

\* group_limits.get(gname, default_limit)
LimitOf(config, gname) ==
  IF gname = "Blog" /\ config.group_limits # <<>>
  THEN config.group_limits
  ELSE config.default_limit

\* A faulty variant of ScoreBefore: the lowest scores come first
ScoreBeforeAscending(a, b) == a.score < b.score

\* key=lambda p: -p.score: a comes before b
ScoreBefore(a, b) == a.score > b.score

\* sorted(gpages, key=lambda p: -p.score): a stable sort, here by insertion
RECURSIVE SortByScore(_)
SortByScore(gpages) ==
  IF gpages = <<>> THEN <<>>
  ELSE LET sorted == SortByScore(SubSeq(gpages, 1, Len(gpages) - 1))
           e == gpages[Len(gpages)]
           k == Cardinality({i \in 1..Len(sorted) : ~ScoreBefore(e, sorted[i])})
       IN  SubSeq(sorted, 1, k) \o <<e>> \o SubSeq(sorted, k + 1, Len(sorted))

\* The keys of by_group, in the order of their first page
RECURSIVE GroupsInOrder(_)
GroupsInOrder(pages) ==
  IF pages = <<>> THEN <<>>
  ELSE LET before == GroupsInOrder(SubSeq(pages, 1, Len(pages) - 1))
           g == pages[Len(pages)].group
       IN  IF \E i \in 1..Len(before) : before[i] = g
           THEN before ELSE Append(before, g)

\* Lines 199-205: what one group adds to limited_pages
LimitedGroup(config, pages, gname) ==
  LET gpages == SelectSeq(pages, LAMBDA p : p.group = gname)
      limit == LimitOf(config, gname)
  IN  IF ~IsPositive(limit)
      THEN gpages
      ELSE SubSeq(SortByScore(gpages), 1, Min({limit[1], Len(gpages)}))

\* Lines 198-205: limited_pages after the groups from the i-th on
RECURSIVE LimitedFrom(_, _, _, _)
LimitedFrom(config, pages, groups, i) ==
  IF i > Len(groups) THEN <<>>
  ELSE LimitedGroup(config, pages, groups[i])
         \o LimitedFrom(config, pages, groups, i + 1)

\* Line 192: `if group_limits or default_limit`
LimitsConfigured(config) ==
  \/ config.group_limits # <<>>
  \/ config.default_limit # <<>> /\ config.default_limit[1] # 0

\* Lines 189-207: the group limits are applied and pages is sorted again
ApplyGroupLimits ==
  /\ lp_pc = "limits"
  /\ LimitsConfigured(lp_config)
  /\ lp_pages' = SortEntries(LimitedFrom(lp_config, lp_pages,
                                         GroupsInOrder(lp_pages), 1))
  /\ lp_limited' = lp_pages'
  /\ lp_pc' = "truncate"
  /\ UNCHANGED <<lp_config, lp_input>>
  /\ UNCHANGED limitRest

\* Line 192: no limit is configured
SkipGroupLimits ==
  /\ lp_pc = "limits"
  /\ ~LimitsConfigured(lp_config)
  /\ lp_limited' = lp_pages
  /\ lp_pc' = "truncate"
  /\ UNCHANGED <<lp_config, lp_input, lp_pages>>
  /\ UNCHANGED limitRest

\* Lines 209-211: pages is cut to its first max_pages entries
TruncateMaxPages ==
  /\ lp_pc = "truncate"
  /\ IsPositive(lp_config.max_pages)
  /\ lp_pages' = SubSeq(lp_pages, 1, Min({lp_config.max_pages[1], Len(lp_pages)}))
  /\ lp_pc' = "done"
  /\ UNCHANGED <<lp_config, lp_input, lp_limited>>
  /\ UNCHANGED limitRest

\* Line 209: max_pages is None or not positive
SkipTruncate ==
  /\ lp_pc = "truncate"
  /\ ~IsPositive(lp_config.max_pages)
  /\ lp_pc' = "done"
  /\ UNCHANGED <<lp_config, lp_input, lp_limited, lp_pages>>
  /\ UNCHANGED limitRest

NextLimit ==
  \/ ApplyGroupLimits
  \/ SkipGroupLimits
  \/ TruncateMaxPages
  \/ SkipTruncate

SpecLimit == InitLimit /\ [][NextLimit]_vars

\* ------------------------------------------------------------------------
\* Claims about the group limits
\* ------------------------------------------------------------------------

SourceUrl == "https://a.com/sitemap.xml"
\* Two more sitemap documents of the site
ChildUrl == "https://a.com/sitemap-2.xml"
PagedUrl == "https://a.com/sitemap?page=2"
\* ChildUrl again, spelled with another scheme and host case
AliasUrl == "http://A.com/sitemap-2.xml"
\* Two pages of the site
PageUrl == "https://a.com/p1"
FeedUrl == "https://a.com/feed.xml"

SitemapUrls == {SourceUrl, ChildUrl, PagedUrl, AliasUrl}
PageUrls == {PageUrl, FeedUrl}

\* u.endswith(".xml")
EndsWithXml(u) == u \in {SourceUrl, ChildUrl, AliasUrl, FeedUrl}

\* What a URL answers: a document with a root element and <loc> texts, or
\* an error status
Doc(root, locs) == [root |-> root, locs |-> locs]
Unavailable == Doc("unavailable", <<>>)

\* The documents a sitemap URL can answer with
SitemapDocs ==
  {Doc("urlset", locs) : locs \in ListsUpTo(PageUrls, MaxLocs)}
    \cup {Doc("sitemapindex", locs) :
            locs \in ListsUpTo(SitemapUrls \ {AliasUrl}, MaxLocs)}
    \cup {Unavailable}

\* The documents the source's sitemap can answer with: its index may name
\* a child by either spelling
SourceDocs ==
  SitemapDocs
    \cup {Doc("sitemapindex", locs) : locs \in ListsUpTo(SitemapUrls, MaxLocs)}

\* What the URL of a page answers when it is fetched as a sitemap: XML with
\* another root element, or an error status
PageDocs == {Doc("rss", <<>>), Unavailable}

\* _fetch_xml(url, session) raises
FetchRaises(doc) == doc.root = "unavailable"

\* _parse_sitemap_xml(xml_text)
_parse_sitemap_xml(doc) ==
  IF doc.root \in {"urlset", "sitemapindex"} THEN doc.locs ELSE <<>>

\* A call in progress: the loop over `candidates` is at entry i and has
\* gathered `urls`
Frame(url, candidates) ==
  [url |-> url, candidates |-> candidates, i |-> 1, urls |-> <<>>]

InitSitemap ==
  /\ \E source \in SourceDocs, child, paged \in SitemapDocs, feed \in PageDocs :
       sm_docs = [u \in SitemapUrls \cup {FeedUrl} |->
                    CASE u = SourceUrl -> source
                      [] u \in {ChildUrl, AliasUrl} -> child
                      [] u = PagedUrl -> paged
                      [] u = FeedUrl -> feed]
  /\ sm_seen \in {{}, {ChildUrl}}
  /\ sm_stack = <<>>
  /\ sm_result = <<>>
  /\ sm_fetched = <<>>
  /\ sm_pc = "start"
  /\ IdleCrawl
  /\ IdleNorm
  /\ IdleCollect
  /\ IdleFilter
  /\ IdleLimit
  /\ IdleFunc
  /\ IdleRun

\* Lines 350-354: the fetch of the source's sitemap fails: []
FetchSourceFails ==
  /\ sm_pc = "start"
  /\ FetchRaises(sm_docs[SourceUrl])
  /\ sm_fetched' = Append(sm_fetched, SourceUrl)
  /\ sm_result' = <<>>
  /\ sm_pc' = "done"
  /\ UNCHANGED <<sm_docs, sm_seen, sm_stack>>
  /\ UNCHANGED sitemapRest

\* Lines 350-367: the source's sitemap is fetched and parsed; without a
\* <loc> ending in ".xml" its <loc> texts are returned, otherwise the loop
\* over them starts.
FetchSource ==
  /\ sm_pc = "start"
  /\ ~FetchRaises(sm_docs[SourceUrl])
  /\ sm_fetched' = Append(sm_fetched, SourceUrl)
  /\ LET urls == _parse_sitemap_xml(sm_docs[SourceUrl])
     IN  IF \E k \in 1..Len(urls) : EndsWithXml(urls[k])
         THEN /\ sm_stack' = <<Frame(SourceUrl, urls)>>
              /\ sm_pc' = "run"
              /\ UNCHANGED sm_result
         ELSE /\ sm_result' = urls
              /\ sm_pc' = "done"
              /\ UNCHANGED sm_stack
  /\ UNCHANGED <<sm_docs, sm_seen>>
  /\ UNCHANGED sitemapRest

\* The innermost call and the candidate its loop is at
Top == sm_stack[Len(sm_stack)]
AtCandidate ==
  /\ sm_pc = "run"
  /\ Top.i <= Len(Top.candidates)
Candidate == Top.candidates[Top.i]

\* The stack with the innermost call replaced
WithTop(frame) == [sm_stack EXCEPT ![Len(sm_stack)] = frame]

\* Lines 119-120 and 364-365: a <loc> that does not end in ".xml" is a URL
\* of the result
AppendLeaf ==
  /\ AtCandidate
  /\ ~EndsWithXml(Candidate)
  /\ sm_stack' = WithTop([Top EXCEPT !.i = @ + 1,
                                     !.urls = Append(@, Candidate)])
  /\ UNCHANGED <<sm_docs, sm_seen, sm_result, sm_fetched, sm_pc>>
  /\ UNCHANGED sitemapRest

\* Lines 110-111: _expand_sitemap_index of a URL already in seen: []
SkipSeen ==
  /\ AtCandidate
  /\ EndsWithXml(Candidate)
  /\ Candidate \in sm_seen
  /\ sm_stack' = WithTop([Top EXCEPT !.i = @ + 1])
  /\ UNCHANGED <<sm_docs, sm_seen, sm_result, sm_fetched, sm_pc>>
  /\ UNCHANGED sitemapRest

\* Lines 112-115: _expand_sitemap_index of a new URL: it enters seen, is
\* fetched and parsed, and the loop over its <loc> texts starts
ExpandChild ==
  /\ AtCandidate
  /\ EndsWithXml(Candidate)
  /\ Candidate \notin sm_seen
  /\ ~FetchRaises(sm_docs[Candidate])
  /\ sm_seen' = sm_seen \cup {Candidate}
  /\ sm_fetched' = Append(sm_fetched, Candidate)
  /\ sm_stack' = Append(WithTop([Top EXCEPT !.i = @ + 1]),
                        Frame(Candidate, _parse_sitemap_xml(sm_docs[Candidate])))
  /\ UNCHANGED <<sm_docs, sm_result, sm_pc>>
  /\ UNCHANGED sitemapRest

\* Lines 112-114: the fetch of a child raises; nothing between here and the
\* caller of collect_urls_from_sources catches the exception
ChildFetchRaises ==
  /\ AtCandidate
  /\ EndsWithXml(Candidate)
  /\ Candidate \notin sm_seen
  /\ FetchRaises(sm_docs[Candidate])
  /\ sm_seen' = sm_seen \cup {Candidate}
  /\ sm_fetched' = Append(sm_fetched, Candidate)
  /\ sm_stack' = <<>>
  /\ sm_pc' = "raised"
  /\ UNCHANGED <<sm_docs, sm_result>>
  /\ UNCHANGED sitemapRest

\* Lines 118 and 121: _expand_sitemap_index returns its urls, which the
\* caller appends to its own
ReturnFromExpand ==
  /\ sm_pc = "run"
  /\ Len(sm_stack) > 1
  /\ Top.i > Len(Top.candidates)
  /\ LET caller == sm_stack[Len(sm_stack) - 1]
     IN  sm_stack' = Append(SubSeq(sm_stack, 1, Len(sm_stack) - 2),
                            [caller EXCEPT !.urls = @ \o Top.urls])
  /\ UNCHANGED <<sm_docs, sm_seen, sm_result, sm_fetched, sm_pc>>
  /\ UNCHANGED sitemapRest

\* Line 365: _collect_from_sitemap_source returns all_urls
ReturnFromSource ==
  /\ sm_pc = "run"
  /\ Len(sm_stack) = 1
  /\ Top.i > Len(Top.candidates)
  /\ sm_result' = Top.urls
  /\ sm_stack' = <<>>
  /\ sm_pc' = "done"
  /\ UNCHANGED <<sm_docs, sm_seen, sm_fetched>>
  /\ UNCHANGED sitemapRest

NextSitemap ==
  \/ FetchSourceFails
  \/ FetchSource
  \/ AppendLeaf
  \/ SkipSeen
  \/ ExpandChild
  \/ ChildFetchRaises
  \/ ReturnFromExpand
  \/ ReturnFromSource

SpecSitemap == InitSitemap /\ [][NextSitemap]_vars

\* ------------------------------------------------------------------------
\* Claims about the sitemap expansion
\* ------------------------------------------------------------------------

\* The elements of a list
Range(list) == {list[k] : k \in 1..Len(list)}

\* The sitemap documents reachable from the set S through the <sitemap>
\* <loc> references of sitemapindex documents
RECURSIVE ReachableFrom(_)
ReachableFrom(S) ==
  LET T == S \cup UNION {Range(sm_docs[u].locs) :
                           u \in {v \in S : sm_docs[v].root = "sitemapindex"}}
  IN  IF T = S THEN S ELSE ReachableFrom(T)

\* The <url><loc> texts of the urlset documents reachable from the source
ReachableLeaves ==
  UNION {Range(sm_docs[u].locs) :
           u \in {v \in ReachableFrom({SourceUrl}) : sm_docs[v].root = "urlset"}}

\* C4: for every finite set of sitemap documents, with cycles and repeated
\* children, collecting from a sitemap source terminates (every document is
\* fetched a bounded number of times and no exception leaves the call) and
\* returns the leaf URLs of every urlset document reachable from the source.
C4_ExpansionReturnsReachableLeaves ==
  /\ Len(sm_fetched) <= Cardinality(SitemapUrls \cup PageUrls) + 1
  /\ sm_pc # "raised"
  /\ sm_pc = "done" => Range(sm_result) = ReachableLeaves

\* C11: the list filter_and_group_urls returns is sorted by (group
\* ascending, score descending, path ascending): of two adjacent entries
\* the first is not greater than the second under that key.
C11_ResultIsSortedByKey ==
  fl_pc = "done" =>
    \A i \in 1..(Len(fl_results) - 1) :
      LET a == fl_results[i]
          b == fl_results[i + 1]
      IN  \/ GroupRank(a.group) < GroupRank(b.group)
          \/ /\ a.group = b.group
             /\ \/ a.score > b.score
                \/ a.score = b.score /\ ~PathLess(b.path, a.path)

C11_Witness ==
  /\ fl_pc = "done"
  /\ Len(fl_results) = 2
  /\ fl_results[1].group = fl_results[2].group
  /\ fl_results[1].score > fl_results[2].score
  /\ fl_urls = <<fl_results[2].url, fl_results[1].url>>

\* ------------------------------------------------------------------------
\* _compute_score (filters.py) applied to two paths of one group and priority
\* ------------------------------------------------------------------------

\* The most segments of a path given to _compute_score
MaxSegments == 7

\* The path of k segments "/x/x.../x"
SegPath(k) == [i \in 1..(2 * k) |-> IF i % 2 = 1 THEN "/" ELSE "x"]

\* The paths: "", "/", "//", and up to MaxSegments segments with and
\* without a trailing slash
ScorePaths ==
  {<<"/", "/">>} \cup
  UNION {{SegPath(k), SegPath(k) \o <<"/">>} : k \in 0..MaxSegments}

ScoreGroups == {"Home", "Docs", "Blog", "Other"}

ScorePriorities == {-1, 0, 1, 100}

InitScore ==
  /\ fn_args \in [group : ScoreGroups, priority : ScorePriorities,
                  path : ScorePaths, other : ScorePaths]
  /\ fn_result = <<>>
  /\ fn_pc = "call"
  /\ IdleCrawl
  /\ IdleNorm
  /\ IdleCollect
  /\ IdleFilter
  /\ IdleLimit
  /\ IdleSitemap
  /\ IdleRun

\* The two calls _compute_score(group, priority, path) and (.., other)
ComputeScores ==
  /\ fn_pc = "call"
  /\ fn_result' = <<_compute_score(fn_args.group, fn_args.priority, fn_args.path),
                    _compute_score(fn_args.group, fn_args.priority, fn_args.other)>>
  /\ fn_pc' = "done"
  /\ UNCHANGED fn_args
  /\ UNCHANGED funcRest

NextScore == ComputeScores

SpecScore == InitScore /\ [][NextScore]_vars

\* C12: for one group and one rule priority, a path with fewer segments
\* never scores lower than a path with more segments, and every score lies
\* in 0..200.
C12_ScoreIsMonotoneInDepth ==
  (fn_pc = "done" /\ DOMAIN fn_args = {"group", "priority", "path", "other"}) =>
    /\ fn_result[1] \in 0..200
    /\ fn_result[2] \in 0..200
    /\ Len(Segments(fn_args.path)) < Len(Segments(fn_args.other))
         => fn_result[1] >= fn_result[2]

C12_Witness ==
  /\ fn_pc = "done"
  /\ DOMAIN fn_args = {"group", "priority", "path", "other"}
  /\ Len(Segments(fn_args.path)) < Len(Segments(fn_args.other))
  /\ fn_result[1] > fn_result[2]
  /\ fn_result[2] = 0

\* ------------------------------------------------------------------------
\* The attempts of crawl_site on one URL and the sleeps between them
\* (crawler.py lines 227-274).  Durations are in tenths of a second.
\* ------------------------------------------------------------------------

\* The largest max_retries of the attempt loop
MaxBackoffRetries == 2

\* resp.headers.get("Retry-After"): None when the header is absent
RetryAfterValues == {None, "", "soon", "0", "1", "2.5", "5", "120", "-1"}

\* float(retry_after): <<the number in tenths>>, or <<>> when float() raises
\* ValueError
float(text) ==
  CASE text = "0" -> <<0>>
    [] text = "1" -> <<10>>
    [] text = "2.5" -> <<25>>
    [] text = "5" -> <<50>>
    [] text = "120" -> <<1200>>
    [] text = "-1" -> <<-10>>
    [] OTHER -> <<>>

\* A faulty variant of SleepAfter429: the Retry-After header is not read
SleepIgnoresRetryAfter(k, retry_after) == 20 * 2^k

\* Lines 241-248: sleep_s after attempt k returned 429 with this header
SleepAfter429(k, retry_after) ==
  LET sleep_s == 20 * 2^k
  IN  IF retry_after # None /\ retry_after # ""
      THEN IF float(retry_after) = <<>>
           THEN sleep_s
           ELSE IF float(retry_after)[1] > sleep_s THEN float(retry_after)[1]
                ELSE sleep_s
      ELSE sleep_s

InitBackoff ==
  /\ fn_args \in [max_retries : 0..MaxBackoffRetries]
  /\ fn_result = <<>>
  /\ fn_pc = "attempt"
  /\ IdleCrawl
  /\ IdleNorm
  /\ IdleCollect
  /\ IdleFilter
  /\ IdleLimit
  /\ IdleSitemap
  /\ IdleRun

\* The attempt in progress: range(max_retries + 1) counts from 0
AttemptNumber == Len(fn_result)

\* `continue`: the next attempt, or the end of the for loop
Continue == fn_pc' = IF AttemptNumber < fn_args.max_retries THEN "attempt" ELSE "after"

\* Lines 241-253: the GET returns 429
Attempt429 ==
  /\ fn_pc = "attempt"
  /\ \E retry_after \in RetryAfterValues :
       fn_result' = Append(fn_result,
                           [status |-> "429", retry_after |-> retry_after,
                            slept |-> SleepAfter429(AttemptNumber, retry_after)])
  /\ Continue
  /\ UNCHANGED fn_args
  /\ UNCHANGED funcRest

\* Lines 255-261: the GET returns a retried 5xx
Attempt5xx ==
  /\ fn_pc = "attempt"
  /\ fn_result' = Append(fn_result,
                         [status |-> "503", retry_after |-> None,
                          slept |-> 15 * 2^AttemptNumber])
  /\ Continue
  /\ UNCHANGED fn_args
  /\ UNCHANGED funcRest

\* Lines 264-274: the GET or raise_for_status raises; no sleep after the
\* final attempt
AttemptRaises ==
  /\ fn_pc = "attempt"
  /\ fn_result' = Append(fn_result,
                         [status |-> "raised", retry_after |-> None,
                          slept |-> IF AttemptNumber >= fn_args.max_retries
                                    THEN 0 ELSE 10 * 2^AttemptNumber])
  /\ Continue
  /\ UNCHANGED fn_args
  /\ UNCHANGED funcRest

\* Lines 233-239 and 262-263: a 404 or a success ends the loop (`break`)
AttemptBreaks ==
  /\ fn_pc = "attempt"
  /\ \E status \in {"200", "404"} :
       fn_result' = Append(fn_result,
                           [status |-> status, retry_after |-> None, slept |-> 0])
  /\ fn_pc' = "after"
  /\ UNCHANGED fn_args
  /\ UNCHANGED funcRest

NextBackoff ==
  \/ Attempt429
  \/ Attempt5xx
  \/ AttemptRaises
  \/ AttemptBreaks

SpecBackoff == InitBackoff /\ [][NextBackoff]_vars

PipelineFilterConfigs ==
  {[include |-> <<>>, exclude |-> <<>>, use_default_excludes |-> TRUE,
    auto_group |-> TRUE, auto_filter_languages |-> b] : b \in BOOLEAN}

\* Lines 105-108 and 176: a non-empty URL list goes to filter_and_group_urls
FilterCollected ==
  /\ col_pc = "done"
  /\ unique # <<>>
  /\ fl_pc = "idle"
  /\ fl_config' \in PipelineFilterConfigs
  /\ fl_urls' = unique
  /\ fl_idx' = 1
  /\ fl_results' = <<>>
  /\ fl_fate' = <<>>
  /\ fl_pc' = "loop"
  /\ UNCHANGED filterRest

NextPipeline ==
  \/ NextCollect
  \/ FilterCollected
  \/ NextFilter

SpecPipeline == InitCollect /\ [][NextPipeline]_vars

\* The canonical key of a URL: lower-cased host, path without its trailing
\* slash
CanonicalKey(u) ==
  LET parsed == urlparse(u)
  IN  <<LowerSeq(parsed.netloc), RStripSlash(parsed.path)>>

\* C14: in one run no two PageEntry values share the canonical key (host,
\* path without trailing slash) of their URLs.
C14_OneEntryPerCanonicalKey ==
  (col_pc = "done" /\ fl_pc = "done") =>
    \A i, j \in 1..Len(fl_results) :
      i # j => CanonicalKey(fl_results[i].url) # CanonicalKey(fl_results[j].url)

\* C15: a fetch or parse failure of a sitemap document, the source's own or
\* a child's, never aborts the run (no exception leaves the call), and the
\* call still returns the page URLs of every urlset document it fetched.
C15_SitemapFailureIsNeverFatal ==
  /\ sm_pc # "raised"
  /\ sm_pc = "done" =>
       \A i \in 1..Len(sm_fetched) :
         LET doc == sm_docs[sm_fetched[i]]
         IN  (~FetchRaises(doc) /\ doc.root = "urlset") =>
               \A k \in 1..Len(doc.locs) :
                 ~EndsWithXml(doc.locs[k]) => doc.locs[k] \in Range(sm_result)

\* ------------------------------------------------------------------------
\* A run from its configuration to its first network request: load_config
\* (config.py lines 89-201), then the head of collect_urls_from_sources
\* (sitemap.py lines 175-226)
\* ------------------------------------------------------------------------

\* The most entries of `sources` in a configuration
MaxConfigSources == 2

\* site.base_url; None when the key is missing
BaseUrls ==
  {None,
   <<>>,
   <<"a.com">>,
   <<"ftp", ":", "/", "/", "a.com">>,
   <<"https", ":", "/", "/">>,
   <<"https", ":", "/", "/", "a.com">>,
   <<"https", ":", "/", "/", "a.com", "/">>}

\* An entry of `sources`: its type, or "untyped" when it has no `type` key
RawSources == {"sitemap", "crawl", "static", "untyped"}

\* validate_url(url) of validators.py, lines 18-33
validate_url(url) ==
  /\ url # None
  /\ url # <<>>
  /\ LET parsed == urlparse(url)
     IN  /\ parsed.scheme # <<>>
         /\ parsed.scheme \in {<<"http">>, <<"https">>}
         /\ parsed.netloc # <<>>

\* A run starts from a configuration file (load_config) or from an AppConfig
\* built by the caller, as the GUI does
InitConfig ==
  /\ fn_args \in [entry : {"load_config", "AppConfig"},
                  base_url : BaseUrls,
                  sources : ListsUpTo(RawSources, MaxConfigSources),
                  enable_auto_subdomains : BOOLEAN]
  /\ fn_args.entry = "AppConfig" =>
       /\ fn_args.base_url # None
       /\ \A i \in 1..Len(fn_args.sources) : fn_args.sources[i] # "untyped"
  /\ fn_args.entry = "load_config" => ~fn_args.enable_auto_subdomains
  /\ fn_result = [base_url |-> fn_args.base_url, sources |-> fn_args.sources,
                  events |-> <<>>]
  /\ fn_pc = IF fn_args.entry = "load_config" THEN "load" ELSE "collect"
  /\ IdleCrawl
  /\ IdleNorm
  /\ IdleCollect
  /\ IdleFilter
  /\ IdleLimit
  /\ IdleSitemap
  /\ IdleRun

Event(e) == [fn_result EXCEPT !.events = Append(@, e)]

\* Lines 119-135 of config.py: the entries with a type
TypedSources(sources) == SelectSeq(sources, LAMBDA s : s # "untyped")

\* config.py lines 92-93, 116-118 and 134-135: the three ValueErrors
LoadConfigRaises ==
  /\ fn_pc = "load"
  /\ \/ fn_args.base_url = None
     \/ fn_args.sources = <<>>
     \/ TypedSources(fn_args.sources) = <<>>
  /\ fn_result' = Event("ValueError")
  /\ fn_pc' = "raised"
  /\ UNCHANGED fn_args
  /\ UNCHANGED funcRest

\* config.py lines 95-201: any other configuration is returned, its
\* base_url without trailing slashes
LoadConfigReturns ==
  /\ fn_pc = "load"
  /\ fn_args.base_url # None
  /\ TypedSources(fn_args.sources) # <<>>
  /\ fn_result' = [fn_result EXCEPT !.base_url = RStripSlash(fn_args.base_url),
                                    !.sources = TypedSources(fn_args.sources)]
  /\ fn_pc' = "collect"
  /\ UNCHANGED fn_args
  /\ UNCHANGED funcRest

\* sitemap.py lines 181-200 and subdomain_discovery.py lines 34-53: with
\* enable_auto_subdomains the sitemap of the base host is requested before
\* the source list is looked at; the session sends a request only for an
\* http(s) URL with a host.  Discovery may add a sitemap source.
DiscoverSubdomains ==
  /\ fn_pc = "collect"
  /\ fn_args.enable_auto_subdomains
  /\ LET parsed == urlparse(fn_result.base_url)
         sent == parsed.scheme \in {<<"http">>, <<"https">>} /\ parsed.netloc # <<>>
     IN  \E added \in {<<>>, <<"sitemap">>} :
           fn_result' = [fn_result EXCEPT
                           !.events = IF sent THEN Append(@, "GET") ELSE @,
                           !.sources = @ \o (IF sent THEN added ELSE <<>>)]
  /\ fn_pc' = "sources"
  /\ UNCHANGED fn_args
  /\ UNCHANGED funcRest

\* sitemap.py line 181: enable_auto_subdomains is off
SkipDiscovery ==
  /\ fn_pc = "collect"
  /\ ~fn_args.enable_auto_subdomains
  /\ fn_pc' = "sources"
  /\ UNCHANGED <<fn_args, fn_result>>
  /\ UNCHANGED funcRest

\* sitemap.py lines 199-203: no sources: a warning, and the empty list
ReturnNoSources ==
  /\ fn_pc = "sources"
  /\ fn_result.sources = <<>>
  /\ fn_result' = Event("return []")
  /\ fn_pc' = "done"
  /\ UNCHANGED fn_args
  /\ UNCHANGED funcRest

\* sitemap.py lines 211-289: the first source is processed: a sitemap or
\* crawl source requests its URL, a static source requests nothing
ProcessFirstSource ==
  /\ fn_pc = "sources"
  /\ fn_result.sources # <<>>
  /\ fn_result' = Event(IF fn_result.sources[1] = "static" THEN "static" ELSE "GET")
  /\ fn_pc' = "done"
  /\ UNCHANGED fn_args
  /\ UNCHANGED funcRest

NextConfig ==
  \/ LoadConfigRaises
  \/ LoadConfigReturns
  \/ DiscoverSubdomains
  \/ SkipDiscovery
  \/ ReturnNoSources
  \/ ProcessFirstSource

SpecConfig == InitConfig /\ [][NextConfig]_vars

\* C16: a run whose configuration has no sources or an invalid base URL
\* issues no HTTP request, and ends with an error raised to the caller.
C16_BadConfigIsRejectedBeforeAnyRequest ==
  (/\ DOMAIN fn_args = {"entry", "base_url", "sources", "enable_auto_subdomains"}
   /\ \/ TypedSources(fn_args.sources) = <<>>
      \/ ~validate_url(fn_args.base_url)) =>
    /\ \A i \in 1..Len(fn_result.events) : fn_result.events[i] # "GET"
    /\ fn_pc \in {"done", "raised"} =>
         fn_result.events[Len(fn_result.events)] = "ValueError"

\* C17: when a sitemap source is configured and the sitemap sources yielded
\* no URL, the sitemaps declared in robots.txt are collected from, whatever
\* the crawl and static sources yielded.
C17_FallbackWhenSitemapsYieldNothing ==
  (/\ col_pc \in {"dedup", "done"}
   /\ \E i \in 1..Len(col_sources) : col_sources[i].type = "sitemap"
   /\ \A i \in 1..Len(col_trace) :
        col_trace[i].from = "sitemap" => col_trace[i].count = 0) =>
    \E i \in 1..Len(col_trace) : col_trace[i].from = "robots"

\* The text of a URL after its authority: the path and the query string
PathAndQuery(u) ==
  LET parsed == urlparse(u)
  IN  IF parsed.query # <<>> THEN parsed.path \o <<"?">> \o parsed.query
      ELSE parsed.path

\* C18: with use_default_excludes on, a URL that matches a built-in default
\* pattern, in its path or in its query string (/blog?page=2), and whose
\* path matches no include rule, is dropped.
C18_DefaultExcludesCoverTheQuery ==
  \A i \in 1..Len(fl_fate) :
    (/\ fl_config.use_default_excludes
     /\ ~\E k \in 1..Len(fl_config.include) :
           _match_rule(_relative_path(fl_urls[i]), fl_config.include[k])
     /\ \E k \in 1..Len(_default_exclude_rules) :
           _match_rule(PathAndQuery(fl_urls[i]), _default_exclude_rules[k])) =>
      fl_fate[i] # "kept"

\* ------------------------------------------------------------------------
\* Subdomain discovery (subdomain_discovery.py): a host name is the sequence
\* of its pieces, "." being a piece of its own, so that "notexample.com" is
\* <<"not", "example", ".", "com">> and holds the text "example.com".
\* ------------------------------------------------------------------------

\* The most hosts found in the sitemap of the base host
MaxFoundHosts == 2

BaseHosts ==
  {<<"www", ".", "example", ".", "com">>,
   <<"example", ".", "com">>,
   <<"localhost">>}

\* The hosts of the URLs found in a sitemap, in robots.txt or on the homepage
FoundHosts ==
  {<<"docs", ".", "example", ".", "com">>,
   <<"example", ".", "com">>,
   <<"not", "example", ".", "com">>,
   <<"example", ".", "com", ".", "evil", ".", "net">>,
   <<"other", ".", "org">>}

\* sub in s, for two Python strings
Contains(s, sub) ==
  \E k \in 0..(Len(s) - Len(sub)) : SubSeq(s, k + 1, k + Len(sub)) = sub

\* Lines 38-42 and 114-118: ".".join(parts[-2:]) when the host has at least
\* two labels, the host itself otherwise
discovery_root_domain(main_domain) ==
  LET dots == {i \in 1..Len(main_domain) : main_domain[i] = "."}
  IN  IF Cardinality(dots) >= 2
      THEN LET last == CHOOSE i \in dots : \A j \in dots : j <= i
               before == CHOOSE i \in dots \ {last} :
                           \A j \in dots \ {last} : j <= i
           IN  Drop(main_domain, before)
      ELSE main_domain

\* Lines 75-79, 139-143 and 173-177: the hosts kept from those found
KeptHosts(found, root) ==
  {LowerSeq(h) : h \in {g \in found : g # <<>> /\ Contains(LowerSeq(g), root)}}

InitDiscovery ==
  /\ fn_args \in [main_domain : BaseHosts,
                  sitemap_hosts : {S \in SUBSET FoundHosts :
                                     Cardinality(S) <= MaxFoundHosts},
                  robots_hosts : {S \in SUBSET FoundHosts : Cardinality(S) <= 1},
                  homepage_hosts : {S \in SUBSET FoundHosts : Cardinality(S) <= 1},
                  selected_subdomains :
                    {<<>>, <<{<<"docs", ".", "example", ".", "com">>}>>}]
  /\ fn_result = [discovered |-> {}, allowed_domains |-> {fn_args.main_domain},
                  added |-> {}]
  /\ fn_pc = "enhance"
  /\ IdleCrawl
  /\ IdleNorm
  /\ IdleCollect
  /\ IdleFilter
  /\ IdleLimit
  /\ IdleSitemap
  /\ IdleRun

\* Lines 207-208 of enhance_sources_with_subdomains: the caller's selection
\* (<<>> stands for None, <<S>> for the set S) stands for the discovery
UseSelected ==
  /\ fn_pc = "enhance"
  /\ fn_args.selected_subdomains # <<>>
  /\ fn_result' = [fn_result EXCEPT !.discovered = fn_args.selected_subdomains[1]]
  /\ fn_pc' = "merge"
  /\ UNCHANGED fn_args
  /\ UNCHANGED funcRest

\* Lines 105-128: discover_subdomains_comprehensive starts with the base
\* host and adds what discover_subdomains_from_sitemap returns (lines 30-86:
\* the base host and the kept hosts of the sitemap's URLs)
DiscoverFromSitemap ==
  /\ fn_pc = "enhance"
  /\ fn_args.selected_subdomains = <<>>
  /\ fn_result' = [fn_result EXCEPT
                     !.discovered =
                       {fn_args.main_domain} \cup
                       KeptHosts(fn_args.sitemap_hosts,
                                 discovery_root_domain(fn_args.main_domain))]
  /\ fn_pc' = "robots"
  /\ UNCHANGED fn_args
  /\ UNCHANGED funcRest

\* Lines 130-147: the hosts of the Sitemap: lines of robots.txt
DiscoverFromRobots ==
  /\ fn_pc = "robots"
  /\ fn_result' = [fn_result EXCEPT
                     !.discovered =
                       @ \cup KeptHosts(fn_args.robots_hosts,
                                        discovery_root_domain(fn_args.main_domain))]
  /\ fn_pc' = "homepage"
  /\ UNCHANGED fn_args
  /\ UNCHANGED funcRest

\* Lines 149-185: the hosts of the links of the homepage, and the return
DiscoverFromHomepage ==
  /\ fn_pc = "homepage"
  /\ fn_result' = [fn_result EXCEPT
                     !.discovered =
                       @ \cup KeptHosts(fn_args.homepage_hosts,
                                        discovery_root_domain(fn_args.main_domain))]
  /\ fn_pc' = "merge"
  /\ UNCHANGED fn_args
  /\ UNCHANGED funcRest

\* Lines 212-247: the discovered hosts join allowed_domains, and each one
\* that no configured source URL holds gets a sitemap source (the run has
\* one source, the sitemap of the base host)
MergeDiscovered ==
  /\ fn_pc = "merge"
  /\ fn_result' = [fn_result EXCEPT
                     !.allowed_domains = @ \cup fn_result.discovered,
                     !.added = {d \in fn_result.discovered :
                                  ~Contains(fn_args.main_domain, d)}]
  /\ fn_pc' = "done"
  /\ UNCHANGED fn_args
  /\ UNCHANGED funcRest

NextDiscovery ==
  \/ UseSelected
  \/ DiscoverFromSitemap
  \/ DiscoverFromRobots
  \/ DiscoverFromHomepage
  \/ MergeDiscovered

SpecDiscovery == InitDiscovery /\ [][NextDiscovery]_vars

\* The last two dot-separated labels of a host name
LastTwoLabels(host) == discovery_root_domain(host)

\* C19: every host that discovery returns, and so every host added to
\* allowed_domains, is the base host or has the root domain (the last two
\* labels) of the base host.
C19_DiscoveredHostsShareTheRoot ==
  (DOMAIN fn_args = {"main_domain", "sitemap_hosts", "robots_hosts",
                     "homepage_hosts", "selected_subdomains"}
   /\ fn_args.selected_subdomains = <<>>) =>
    \A h \in fn_result.discovered \cup fn_result.allowed_domains :
      \/ h = fn_args.main_domain
      \/ LastTwoLabels(h) = LastTwoLabels(fn_args.main_domain)

\* ------------------------------------------------------------------------
\* _get_url_priority (crawler.py lines 24-77) applied to URLs given as text
\* ------------------------------------------------------------------------

\* The most segments of the path of a URL given to _get_url_priority
MaxPrioritySegments == 2

PrioritySegments ==
  {"products", "pricing", "blog", "Blog", "about", "careers", "post", "item"}

\* https://example.com followed by up to MaxPrioritySegments segments
PriorityUrls ==
  {<<"https", ":", "/", "/", "example.com">> \o
     [i \in 1..(2 * Len(segs)) |-> IF i % 2 = 1 THEN "/" ELSE segs[i \div 2]] :
   segs \in UNION {[1..n -> PrioritySegments] : n \in 0..MaxPrioritySegments}}

\* Line 29: urlparse(url).path.lower(), as its segments
LowerPathSegments(url) == Segments(LowerSeq(urlparse(url).path))

InitPriority ==
  /\ fn_args \in [url : PriorityUrls]
  /\ fn_result = <<>>
  /\ fn_pc = "call"
  /\ IdleCrawl
  /\ IdleNorm
  /\ IdleCollect
  /\ IdleFilter
  /\ IdleLimit
  /\ IdleSitemap
  /\ IdleRun

\* _get_url_priority(url), called twice on the same URL
ComputePriority ==
  /\ fn_pc = "call"
  /\ fn_result' = <<PathPriority(LowerPathSegments(fn_args.url)),
                    PathPriority(LowerPathSegments(fn_args.url))>>
  /\ fn_pc' = "done"
  /\ UNCHANGED fn_args
  /\ UNCHANGED funcRest

NextPriority == ComputePriority

SpecPriority == InitPriority /\ [][NextPriority]_vars

\* The segments of the path of the URL under test, lower-cased
PrioritySegs == SeqRange(LowerPathSegments(fn_args.url))

FetchedWithRoot(root) ==
  {u \in Range(sm_fetched) : sm_docs[u].root = root}

\* C21: the shape of a sitemap document is decided by its root element: a
\* <url><loc> of a urlset is never fetched as a sitemap and, when the call
\* returns, is in the result; a <sitemap><loc> of a sitemapindex is never
\* in the result and, when the call returns, was fetched (by this call or,
\* being in `seen`, by an earlier one); whatever the loc text ends with.
C21_RootElementDecidesTheShape ==
  /\ Range(sm_fetched) \cap PageUrls = {}
  /\ sm_pc = "done" =>
       /\ Range(sm_result) \cap SitemapUrls = {}
       /\ \A u \in FetchedWithRoot("urlset") :
            Range(sm_docs[u].locs) \subseteq Range(sm_result)
       /\ \A u \in FetchedWithRoot("sitemapindex") :
            Range(sm_docs[u].locs) \subseteq Range(sm_fetched) \cup sm_seen

\* The sitemap URLs of the site as normalize_url reads them
SitemapTokens(u) ==
  CASE u = SourceUrl -> <<"https", ":", "/", "/", "a.com", "/", "sitemap.xml">>
    [] u = ChildUrl -> <<"https", ":", "/", "/", "a.com", "/", "sitemap-2.xml">>
    [] u = AliasUrl -> <<"http", ":", "/", "/", "A.com", "/", "sitemap-2.xml">>
    [] u = PagedUrl -> <<"https", ":", "/", "/", "a.com", "/", "sitemap", "?", "page=2">>
    [] u = PageUrl -> <<"https", ":", "/", "/", "a.com", "/", "p1">>
    [] u = FeedUrl -> <<"https", ":", "/", "/", "a.com", "/", "feed.xml">>

\* normalize_url(u) with its default flags, the key of the dedup boundaries
CanonicalSitemapUrl(u) == normalize_url(SitemapTokens(u), TRUE, TRUE, TRUE)

\* C22: during the sitemap collection of one run no sitemap document is
\* fetched twice: every fetched URL, the source's own included, is in the
\* visited set, and no two fetches have the same canonical normalization.
C22_NoSitemapIsFetchedTwice ==
  /\ Range(sm_fetched) \subseteq sm_seen
  /\ \A i, j \in 1..Len(sm_fetched) :
       i # j => CanonicalSitemapUrl(sm_fetched[i]) # CanonicalSitemapUrl(sm_fetched[j])

\* ------------------------------------------------------------------------
\* The crawl sources of one run: collect_urls_from_sources (sitemap.py lines
\* 153-170 and 211-278) calls crawl_site once per crawl source, with the
\* session it mounted the retry adapter on and with the caller's failure
\* sink
\* ------------------------------------------------------------------------
MaxRunBudget == 2      \* config.filters.max_urls ranges over 1..MaxRunBudget
MaxCrawlSources == 2   \* crawl sources of one run

\* Retry(total=3, ...) of line 159
RetryTotal == 3
\* status_forcelist of line 161
status_forcelist == {429, 500, 502, 503, 504}
\* The HTTP requests one session.get sends through the adapter: one, or
\* one and RetryTotal retries
AdapterSends == {1, RetryTotal + 1}

\* src.url of the crawl sources
RunStartUrls == {AboutUrl, CareersUrl}

\* A crawl source; max_urls = 0 stands for an unset src.max_urls
CrawlSource(url, d, m) == [url |-> url, max_depth |-> d, max_urls |-> m]

CrawlSources ==
  {CrawlSource(u, d, m) :
     u \in RunStartUrls, d \in 0..MaxDepthBound, m \in 0..MaxRunBudget}

\* Lines 238-251: per_source_max, cut down to the remaining budget
PerSourceMax(src, global_max, collected_count) ==
  LET per_source_max == IF src.max_urls # 0 THEN src.max_urls ELSE global_max
      remaining_budget == global_max - collected_count
  IN  IF per_source_max > remaining_budget THEN remaining_budget
      ELSE per_source_max

InitRun ==
  /\ run_global_max \in 1..MaxRunBudget
  /\ run_sources \in [1..MaxCrawlSources -> CrawlSources]
  /\ run_idx = 1
  /\ run_collected = <<>>
  /\ wire = [u \in Urls |-> 0]
  /\ run_pc = "crawl"
  /\ max_urls = PerSourceMax(run_sources[1], run_global_max, 0)
  /\ max_depth = run_sources[1].max_depth
  /\ max_retries \in 0..MaxRetriesBound
  /\ allow_same_root_subdomains = FALSE
  /\ has_sink \in BOOLEAN
  /\ start_url = run_sources[1].url
  /\ visited = {}
  /\ results = <<>>
  /\ queue = {<<-_get_url_priority(start_url), 0, start_url, 0>>}
  /\ counter = 1
  /\ dynamic_allowed_hosts = allowed_hosts
  /\ failed_urls = <<>>
  /\ pc = "loop"
  /\ current = None
  /\ depth = 0
  /\ attempt = 0
  /\ resp = NoResp
  /\ last_err = 0
  /\ attemptLog = <<>>
  /\ fetchStarts = [u \in Urls |-> 0]
  /\ popped = <<>>
  /\ IdleNorm
  /\ IdleCollect
  /\ IdleFilter
  /\ IdleLimit
  /\ IdleSitemap
  /\ IdleFunc

\* One session.get of crawler.py line 231 put n requests on the wire
Sent(n) ==
  /\ wire' = [wire EXCEPT ![current] = @ + n]
  /\ UNCHANGED <<run_global_max, run_sources, run_idx, run_collected, run_pc>>
  /\ UNCHANGED runRest

\* session.get answers 404, at once or after retries of the adapter
RunFetchNotFound == \E n \in AdapterSends : FetchNotFoundStep /\ Sent(n)

\* session.get answers a status crawl_site retries and the adapter does not
RunFetchRetryable ==
  \E n \in AdapterSends :
    FetchRetryableStep(RetryableStatus \ status_forcelist) /\ Sent(n)

\* session.get answers a 2xx, at once or after retries of the adapter
RunFetchOk == \E n \in AdapterSends : FetchOkStep /\ Sent(n)

\* session.get raises (at once, or RetryError or a transport error after
\* the adapter's retries), or answers another status raise_for_status
\* raises on
RunFetchError == \E n \in AdapterSends : FetchErrorStep /\ Sent(n)

\* Line 278, then lines 211-270 for the next crawl source: crawl_site
\* returned, its URLs extend `collected`, and with budget left crawl_site
\* is called for the next source (crawler.py lines 158-188)
NextCrawlSource ==
  /\ run_pc = "crawl"
  /\ pc = "done"
  /\ run_idx < Len(run_sources)
  /\ Len(run_collected \o results) < run_global_max
  /\ run_collected' = run_collected \o results
  /\ run_idx' = run_idx + 1
  /\ max_urls' = PerSourceMax(run_sources[run_idx + 1], run_global_max,
                              Len(run_collected \o results))
  /\ max_depth' = run_sources[run_idx + 1].max_depth
  /\ start_url' = run_sources[run_idx + 1].url
  /\ visited' = {}
  /\ results' = <<>>
  /\ queue' = {<<-_get_url_priority(start_url'), 0, start_url', 0>>}
  /\ counter' = 1
  /\ dynamic_allowed_hosts' = allowed_hosts
  /\ pc' = "loop"
  /\ current' = None
  /\ depth' = 0
  /\ popped' = <<>>
  /\ ClearLocals
  /\ UNCHANGED <<max_retries, allow_same_root_subdomains, has_sink,
                 failed_urls, fetchStarts>>
  /\ UNCHANGED <<run_global_max, run_sources, wire, run_pc>>
  /\ UNCHANGED runRest

\* Line 278, then line 211 or lines 219-224: crawl_site returned for the
\* last source, or the budget is used up: the loop over the sources ends
LastCrawlSource ==
  /\ run_pc = "crawl"
  /\ pc = "done"
  /\ \/ run_idx >= Len(run_sources)
     \/ Len(run_collected \o results) >= run_global_max
  /\ run_collected' = run_collected \o results
  /\ run_pc' = "done"
  /\ UNCHANGED crawlVars
  /\ UNCHANGED <<run_global_max, run_sources, run_idx, wire>>
  /\ UNCHANGED runRest

NextCrawlRun ==
  \/ Dequeue
  \/ RunFetchNotFound
  \/ RunFetchRetryable
  \/ RunFetchOk
  \/ RunFetchError
  \/ RecordFailure
  \/ DiscardNonHtml
  \/ AcceptWithoutLinks
  \/ AcceptAndEnqueue
  \/ Return
  \/ NextCrawlSource
  \/ LastCrawlSource

SpecCrawlRun == InitRun /\ [][NextCrawlRun]_vars

\* The URLs with a FailedURLRecord in the sink
Recorded(sink) == {sink[k].url : k \in 1..Len(sink)}

\* C23: a URL with a FailedURLRecord in the failure sink is not fetched
\* again in the same run, not by a later crawl source either; and within
\* one crawl_site call a URL that enters the retry loop was not visited
\* before, so it is dequeued-and-fetched at most once.
C23_FailedUrlIsNotFetchedAgain ==
  [][\A u \in Urls :
       fetchStarts'[u] > fetchStarts[u] =>
         (u \notin Recorded(failed_urls) /\ u \notin visited)]_vars

\* C24: for every URL processed by a crawl of the run, at most
\* max_retries + 1 HTTP GET requests are sent, the retries of the adapter
\* mounted on the shared session included.
C24_RequestsPerUrlAreBounded ==
  \A u \in Urls : wire[u] <= fetchStarts[u] * (max_retries + 1)

\* ------------------------------------------------------------------------
\* Further claims about crawl_site
\* ------------------------------------------------------------------------

\* C25: a response with a non-2xx status that is not one of the retried
\* ones (403) ends the fetching of its URL: it is the last GET of the retry
\* loop, and the loop is left with resp = None, so that the URL is recorded
\* and not added to the results.
C25_OtherStatusIsNotRetried ==
  \A i \in 1..Len(attemptLog) :
    attemptLog[i] = "status_error" =>
      /\ i = Len(attemptLog)
      /\ pc = "after"
      /\ resp = NoResp

\* The host of the URL is in the allowed set: in allowed_hosts or, with the
\* same-root-subdomain policy on, the root domain or a name that ends with
\* "." and the root domain
InAllowedSet(u) ==
  \/ HostOf(u) \in allowed_hosts
  \/ /\ allow_same_root_subdomains
     /\ \E k \in 0..Len(HostOf(u)) :
          HostOf(u) = SubSeq(HostOf(u), 1, k) \o root_domain

\* C26: crawl_site starts a fetch only for, and returns only, URLs whose
\* host is in the allowed set; with a start URL outside it the result stays
\* empty and nothing is fetched.
C26_OnlyAllowedHostsAreFetched ==
  /\ \A u \in Urls :
       (fetchStarts[u] > 0 \/ u \in SeqRange(results)) => InAllowedSet(u)
  /\ ~InAllowedSet(start_url) =>
       (results = <<>> /\ \A u \in Urls : fetchStarts[u] = 0)

\* C26 witness: the crawl of a subdomain start URL, admitted by the policy,
\* returned it and a page it links to, its links were all followed that
\* could be (the frontier is empty), and its link to a foreign host was not.
C26_Witness ==
  /\ pc = "done"
  /\ allow_same_root_subdomains
  /\ start_url = SubUrl
  /\ max_depth = 1
  /\ queue = {}
  /\ results = <<SubUrl, AboutUrl, CareersUrl>>
  /\ fetchStarts[ExtUrl] = 0

\* C26 witness of the last sentence: the crawl of a foreign start URL ended
\* with nothing fetched.
C26_WitnessForeignStart ==
  /\ pc = "done"
  /\ start_url = ExtUrl
  /\ results = <<>>

\* C27: every frontier entry has a depth between 0 and max_depth; a step
\* that pushes onto the frontier handles an HTML-like response of a page
\* below max_depth, which it adds to the results, and every entry it pushes
\* has that page's depth plus one; a step that handles a response that is
\* not HTML-like leaves the results and the frontier as they are.
C27_DepthIsBounded ==
  /\ [](\A e \in queue : 0 <= e[4] /\ e[4] <= max_depth)
  /\ [][(queue' \ queue # {}) =>
          /\ pc = "after" /\ resp # NoResp /\ resp.html
          /\ depth < max_depth
          /\ results' = Append(results, current)
          /\ \A e \in queue' \ queue : e[4] = depth + 1]_vars
  /\ [][(pc = "after" /\ resp # NoResp /\ ~resp.html) =>
          (results' = results /\ queue' = queue)]_vars

\* C27 witness: with max_depth = 1 the start page was accepted and its
\* links wait at depth 1; one of them answered with a response that is not
\* HTML-like and is about to be dropped, another is still in the frontier.
C27_Witness ==
  /\ max_depth = 1
  /\ results = <<RootUrl>>
  /\ pc = "after"
  /\ depth = 1
  /\ resp # NoResp
  /\ ~resp.html
  /\ \E e \in queue : e[4] = 1

\* ------------------------------------------------------------------------
\* crawl_site on a site where every fetch answers 200 with HTML and the
\* result cap is out of reach
\* ------------------------------------------------------------------------
MaxCoverDepth == 3     \* max_depth ranges over 0..MaxCoverDepth
MaxCoverUrls == 8      \* max_urls, above the number of pages of the group

InitCover ==
  /\ max_urls = MaxCoverUrls
  /\ max_depth \in 0..MaxCoverDepth
  /\ max_retries \in 0..MaxRetriesBound
  /\ allow_same_root_subdomains \in BOOLEAN
  /\ has_sink \in BOOLEAN
  /\ start_url = HubUrl
  /\ visited = {}
  /\ results = <<>>
  /\ queue = {<<-_get_url_priority(start_url), 0, start_url, 0>>}
  /\ counter = 1
  /\ dynamic_allowed_hosts = allowed_hosts
  /\ failed_urls = <<>>
  /\ pc = "loop"
  /\ current = None
  /\ depth = 0
  /\ attempt = 0
  /\ resp = NoResp
  /\ last_err = 0
  /\ attemptLog = <<>>
  /\ fetchStarts = [u \in Urls |-> 0]
  /\ popped = <<>>
  /\ IdleNorm
  /\ IdleCollect
  /\ IdleFilter
  /\ IdleLimit
  /\ IdleSitemap
  /\ IdleFunc
  /\ IdleRun

\* The GET answers 200 with an HTML-like Content-Type
FetchHtml == FetchOk /\ resp'.html

\* The page is at max_depth (line 313); parser.feed does not raise
AcceptAtMaxDepth == depth >= max_depth /\ AcceptWithoutLinks

NextCover ==
  \/ Dequeue
  \/ FetchHtml
  \/ AcceptAtMaxDepth
  \/ AcceptAndEnqueue
  \/ Return

SpecCover == InitCover /\ [][NextCover]_vars

\* The pages reachable from the set S by a chain of at most k links
RECURSIVE Neighbourhood(_, _)
Neighbourhood(S, k) ==
  IF k = 0 THEN S
  ELSE Neighbourhood(S \cup UNION {SiteLinks(u) : u \in S}, k - 1)

\* C28: when every fetch succeeds with HTML and max_urls is not reached,
\* the result of crawl_site holds every allowed-domain page that a chain of
\* at most max_depth links reaches from the start URL.
C28_CoversTheNeighbourhood ==
  (pc = "done" /\ Len(results) < max_urls) =>
    \A u \in Neighbourhood({start_url}, max_depth) :
      _is_allowed_domain(u, allowed_hosts) => u \in SeqRange(results)

\* C29: whatever the fetches answer, crawl_site eventually returns its
\* result list: no exception leaves it and no URL is processed for ever.
C29_CrawlEventuallyReturns == <>(pc = "done")

\* C30: the crawl is deterministic: the links of one page are inserted into
\* the frontier in a fixed order, so whatever order the loop over
\* parser.links can take, it leaves the frontier and the insertion counter
\* that this step left.
C30_LinksAreInsertedInAFixedOrder ==
  [][(pc = "after" /\ pc' = "loop" /\ depth < max_depth) =>
       \A links \in LinkSeqs(current) :
         LET r == PushLinks(links, 1, queue, counter, dynamic_allowed_hosts,
                            results')
         IN  r.q = queue' /\ r.c = counter']_vars

\* Two result lists of the same call: crawl_site from HubUrl with
\* max_depth = 1
JobsBeforePress ==
  /\ pc = "done" /\ max_depth = 1
  /\ results = <<HubUrl, GuidesUrl, JobsUrl, PressUrl>>
PressBeforeJobs ==
  /\ pc = "done" /\ max_depth = 1
  /\ results = <<HubUrl, GuidesUrl, PressUrl, JobsUrl>>

====
